---- MODULE Spec2Model ----
(***************************************************************************)
(* A model of the drink-list import pipeline (src/src/import.rs,           *)
(* src/src/models.rs, src/src/bin/import.rs).                              *)
(*                                                                         *)
(* Strings are sequences of one-character strings, so that trimming,       *)
(* lower-casing, substring search and the regular expressions of the code  *)
(* are computed, character by character, as the code computes them.        *)
(* Option<T> is a sequence of length 0 (None) or 1 (Some(x)).              *)
(* A NaiveDate is a record [year, month, day].                             *)
(***************************************************************************)
EXTENDS Integers, Sequences, FiniteSets, TLC

VARIABLES
    previous_date,  \* the DateContext threaded from one line to the next
    date_call,      \* the last call of DateContext::from_entry: <<>> or <<[entry_date, previous, result]>>
    drinks,         \* DrinkSet.drinks : id -> Drink
    lookup,         \* DrinkSet.lookup : set of [key: Drink, id: Int], one per key class
    reg_call,       \* the last DrinkSet call: <<>> or <<[op, id, drink, pre_drinks, pre_lookup, result]>>
    panicked,       \* "" while running, else the message of the panic that ended the call / run
    run,            \* the import run: [pc, line_no, errors, last, db_drinks, db_entries]
    fn_call         \* the last call of a pure function: <<>> or <<[op, its arguments, its result]>>

vars == <<previous_date, date_call, drinks, lookup, reg_call, panicked, run, fn_call>>

(***************************************************************************)
(* Option                                                                  *)
(***************************************************************************)
None == <<>>
Some(x) == <<x>>
IsSome(o) == Len(o) = 1
IsNone(o) == Len(o) = 0
Unwrap(o) == o[1]

(***************************************************************************)
(* Characters and strings                                                  *)
(***************************************************************************)
UpperChars == <<"A","B","C","D","E","F","G","H","I","J","K","L","M",
                "N","O","P","Q","R","S","T","U","V","W","X","Y","Z">>
LowerChars == <<"a","b","c","d","e","f","g","h","i","j","k","l","m",
                "n","o","p","q","r","s","t","u","v","w","x","y","z">>
Digits == {"0","1","2","3","4","5","6","7","8","9"}

IsUpper(c) == \E i \in 1..26 : UpperChars[i] = c
IsLowerC(c) == \E i \in 1..26 : LowerChars[i] = c
\* regex \d
IsDigit(c) == c \in Digits
\* regex \w
IsWord(c) == IsUpper(c) \/ IsLowerC(c) \/ IsDigit(c) \/ c = "_"
\* regex \s, str::trim
IsSpace(c) == c = " "

char_to_lowercase(c) ==
    IF IsUpper(c) THEN LowerChars[CHOOSE i \in 1..26 : UpperChars[i] = c] ELSE c

\* str::to_lowercase
to_lowercase(s) == [i \in 1..Len(s) |-> char_to_lowercase(s[i])]

\* str::trim: the string without its leading and trailing white space
trim(s) ==
    LET keep == {i \in 1..Len(s) : ~IsSpace(s[i])}
    IN  IF keep = {} THEN <<>>
        ELSE LET lo == CHOOSE i \in keep : \A j \in keep : i <= j
                 hi == CHOOSE i \in keep : \A j \in keep : j <= i
             IN  SubSeq(s, lo, hi)

\* str::contains
contains(s, pat) ==
    \E i \in 1..(Len(s) - Len(pat) + 1) : SubSeq(s, i, i + Len(pat) - 1) = pat

\* str::starts_with
starts_with(s, pat) == Len(s) >= Len(pat) /\ SubSeq(s, 1, Len(pat)) = pat

\* the suffix of s from position i on
From(s, i) == SubSeq(s, i, Len(s))

\* every character of s at positions lo..hi is a digit / a word character / one of [,; ]
AllDigits(s, lo, hi) == \A i \in lo..hi : IsDigit(s[i])
AllWord(s, lo, hi) == \A i \in lo..hi : IsWord(s[i])

(***************************************************************************)
(* String literals                                                         *)
(***************************************************************************)
S_morning == <<"m","o","r","n","i","n","g">>
S_afternoon == <<"a","f","t","e","r","n","o","o","n">>
S_evening == <<"e","v","e","n","i","n","g">>
S_night == <<"n","i","g","h","t">>
S_brunch == <<"b","r","u","n","c","h">>
S_double == <<"d","o","u","b","l","e">>

(***************************************************************************)
(* models.rs: TimePeriod                                                   *)
(***************************************************************************)
TimePeriods == {"Morning", "Afternoon", "Evening", "Night"}

TimePeriod_from_str(time) ==
    IF time = S_morning THEN Some("Morning")
    ELSE IF time = S_afternoon THEN Some("Afternoon")
    ELSE IF time = S_evening THEN Some("Evening")
    ELSE IF time = S_night THEN Some("Night")
    ELSE None

is_time_string(time) == IsSome(TimePeriod_from_str(time))

(***************************************************************************)
(* chrono: NaiveDate                                                       *)
(***************************************************************************)
NaiveDate(y, m, d) == [year |-> y, month |-> m, day |-> d]

IsLeapYear(y) == y % 4 = 0 /\ (y % 100 # 0 \/ y % 400 = 0)

DaysInMonth(y, m) ==
    IF m = 2 THEN (IF IsLeapYear(y) THEN 29 ELSE 28)
    ELSE IF m \in {4, 6, 9, 11} THEN 30
    ELSE 31

\* NaiveDate::from_ymd panics on a day that does not exist
ValidYmd(y, m, d) == m \in 1..12 /\ d >= 1 /\ d <= DaysInMonth(y, m)

MonthNames == << <<"j","a","n">>, <<"f","e","b">>, <<"m","a","r">>, <<"a","p","r">>,
                 <<"m","a","y">>, <<"j","u","n">>, <<"j","u","l">>, <<"a","u","g">>,
                 <<"s","e","p">>, <<"o","c","t">>, <<"n","o","v">>, <<"d","e","c">> >>

\* chrono "%b": a three-letter month name, in any letter case
short_month(s) ==
    LET l == to_lowercase(s)
    IN  IF \E i \in 1..12 : MonthNames[i] = l
        THEN Some(CHOOSE i \in 1..12 : MonthNames[i] = l)
        ELSE None

DigitChars == <<"0","1","2","3","4","5","6","7","8","9">>
DigitValue(c) == (CHOOSE i \in 1..10 : DigitChars[i] = c) - 1

\* the value of a string of decimal digits
RECURSIVE DecimalValue(_)
DecimalValue(s) ==
    IF s = <<>> THEN 0
    ELSE 10 * DecimalValue(SubSeq(s, 1, Len(s) - 1)) + DigitValue(s[Len(s)])

\* chrono parse(.., "%b %e"): month name, white space, day of one or two digits
ParseMonthDay(s) ==
    IF /\ Len(s) \in {5, 6}
       /\ IsSome(short_month(SubSeq(s, 1, 3)))
       /\ IsSpace(s[4])
       /\ AllDigits(s, 5, Len(s))
    THEN Some([month |-> Unwrap(short_month(SubSeq(s, 1, 3))),
               day |-> DecimalValue(From(s, 5))])
    ELSE None

\* chrono parse(.., "%e %b"): day of one or two digits, white space, month name
ParseDayMonth(s) ==
    LET nd == Len(s) - 4
    IN  IF /\ nd \in {1, 2}
           /\ AllDigits(s, 1, nd)
           /\ IsSpace(s[nd + 1])
           /\ IsSome(short_month(From(s, nd + 2)))
        THEN Some([month |-> Unwrap(short_month(From(s, nd + 2))),
                   day |-> DecimalValue(SubSeq(s, 1, nd))])
        ELSE None

(***************************************************************************)
(* Results of calls that may panic                                         *)
(***************************************************************************)
Ok(v) == [ok |-> TRUE, val |-> v]
Panic(msg) == [ok |-> FALSE, panic |-> msg]

(***************************************************************************)
(* import.rs: DateContext                                                  *)
(***************************************************************************)
\* the year rule of parse_date_string
YearFor(day, month, previous) ==
    IF day = 1 /\ month = 1 THEN previous.year + 1 ELSE previous.year

\* the two chrono parses of parse_date_string: "%b %e", then "%e %b" as the
\* backup; None when the backup fails too
chrono_parse(date) ==
    IF IsSome(ParseMonthDay(date)) THEN ParseMonthDay(date) ELSE ParseDayMonth(date)

\* [;,] of the date expression
IsCtxSep(c) == c \in {";", ","}
\* [,; ] of the date expression
IsSkip(c) == c \in {",", ";", " "}

\* (?:\d{1,2}\s\w{3}) with nd digits
DayAlt1(s, nd) ==
    /\ Len(s) >= nd + 4
    /\ AllDigits(s, 1, nd)
    /\ IsSpace(s[nd + 1])
    /\ AllWord(s, nd + 2, nd + 4)

\* (?:\w{3}\s\d{1,2}) with nd digits
DayAlt2(s, nd) ==
    /\ Len(s) >= nd + 4
    /\ AllWord(s, 1, 3)
    /\ IsSpace(s[4])
    /\ AllDigits(s, 5, nd + 4)

\* the lengths the optional day group can take, in the order the matcher
\* tries them: first alternative before second, two digits before one, and
\* the group left out last
DayCandidates(s) ==
    (IF DayAlt1(s, 2) THEN <<6>> ELSE <<>>) \o
    (IF DayAlt1(s, 1) THEN <<5>> ELSE <<>>) \o
    (IF DayAlt2(s, 2) THEN <<6>> ELSE <<>>) \o
    (IF DayAlt2(s, 1) THEN <<5>> ELSE <<>>) \o
    <<0>>

\* the longest run of [,; ] that starts after position d
MaxSkip(s, d) ==
    CHOOSE n \in 0..(Len(s) - d) :
        /\ \A i \in (d + 1)..(d + n) : IsSkip(s[i])
        /\ (d + n = Len(s) \/ ~IsSkip(s[d + n + 1]))

\* The ways r splits as  context2 [;,]? context1 [;,]? $ : <<n2, s2, s1>>
\* gives the length of context2 and whether each separator is taken; the
\* length of context1 is what is left.
ContextSplits(r) ==
    LET seps == {i \in 1..Len(r) : IsCtxSep(r[i])}
    IN  {t \in (0..Len(r)) \X {0, 1} \X {0, 1} :
            LET n2 == t[1]
                s2 == t[2]
                s1 == t[3]
                n1 == Len(r) - n2 - s2 - s1
            IN  /\ n1 >= 0
                /\ seps \cap (1..n2) = {}
                /\ (s2 = 1 => (n2 + 1) \in seps)
                /\ seps \cap ((n2 + s2 + 1)..(n2 + s2 + n1)) = {}
                /\ (s1 = 1 => Len(r) \in seps)}

\* lazy context2 (shortest first), greedy separator, lazy context1, greedy separator
SplitRank(t) == 4 * t[1] + 2 * (1 - t[2]) + (1 - t[3])

\* the split the matcher finds first among splits
FirstSplit(splits) ==
    CHOOSE t \in splits : \A u \in splits : SplitRank(t) <= SplitRank(u)

\* the attempts <<day length, skipped separators>> in the matcher's order:
\* [,; ]* is greedy, so the longest run first
RECURSIVE DateAttempts(_, _)
DateAttempts(s, cands) ==
    IF cands = <<>> THEN <<>>
    ELSE LET d == Head(cands)
             m == MaxSkip(s, d)
         IN  [j \in 1..(m + 1) |-> <<d, m - j + 1>>] \o DateAttempts(s, Tail(cands))

\* the captures of the match with a day group of d characters, the rest r
\* of the text after the skipped separators, and r split as t
DateCapturesAt(s, d, r, t) ==
    Some([day |-> IF d = 0 THEN None ELSE Some(SubSeq(s, 1, d)),
          context2 |-> Some(SubSeq(r, 1, t[1])),
          context1 |-> Some(SubSeq(r, t[1] + t[2] + 1, Len(r) - t[3]))])

\* the match of one attempt, None when r does not split
DateMatchAt(s, d, r, splits) ==
    IF splits = {} THEN None ELSE DateCapturesAt(s, d, r, FirstSplit(splits))

\* the first attempt that matches, None when none does
RECURSIVE FirstDateMatch(_, _)
FirstDateMatch(s, attempts) ==
    IF attempts = <<>> THEN None
    ELSE LET r == From(s, Head(attempts)[1] + Head(attempts)[2] + 1)
             m == DateMatchAt(s, Head(attempts)[1], r, ContextSplits(r))
         IN  IF IsSome(m) THEN m ELSE FirstDateMatch(s, Tail(attempts))

\* RE.captures of DateContext::from_entry
DateRE(s) == FirstDateMatch(s, DateAttempts(s, DayCandidates(s)))

\* the helper closure cap_str: trimmed, not empty, lower-cased
date_cap_str(cap) ==
    IF IsNone(cap) THEN None
    ELSE LET t == trim(Unwrap(cap))
         IN  IF t = <<>> THEN None ELSE Some(to_lowercase(t))

\* the closure is_time_string of from_entry
opt_is_time_string(context) == IsSome(context) /\ is_time_string(Unwrap(context))

\* which captures the context list keeps, and in which order
ContextOf(context1, context2) ==
    LET both == <<context1, context2>>
        kept == SelectSeq(both, LAMBDA c : IsSome(c) /\ ~is_time_string(Unwrap(c)))
    IN  [i \in 1..Len(kept) |-> Unwrap(kept[i])]

\* a faulty TimeOf: "brunch" is looked at before the time-period names
TimeOf_BrunchFirst(context1, context2, date, previous) ==
    LET t1 == opt_is_time_string(context1)
        t2 == opt_is_time_string(context2)
        is_brunch == context1 = Some(S_brunch) \/ context2 = Some(S_brunch)
    IN  IF is_brunch THEN Ok("Afternoon")
        ELSE IF t1 /\ ~t2 THEN Ok(Unwrap(TimePeriod_from_str(Unwrap(context1))))
        ELSE IF ~t1 /\ t2 THEN Ok(Unwrap(TimePeriod_from_str(Unwrap(context2))))
        ELSE IF ~t1 /\ ~t2
             THEN (IF date = previous.date THEN Ok(previous.time) ELSE Ok("Night"))
        ELSE Panic("Found two time strings")

\* a faulty TimeOf: of two time-period names the first one written wins
TimeOf_PickFirst(context1, context2, date, previous) ==
    LET t1 == opt_is_time_string(context1)
        t2 == opt_is_time_string(context2)
        is_brunch == context1 = Some(S_brunch) \/ context2 = Some(S_brunch)
    IN  IF t2 THEN Ok(Unwrap(TimePeriod_from_str(Unwrap(context2))))
        ELSE IF t1 THEN Ok(Unwrap(TimePeriod_from_str(Unwrap(context1))))
        ELSE IF is_brunch THEN Ok("Afternoon")
        ELSE IF date = previous.date THEN Ok(previous.time)
        ELSE Ok("Night")

\* a faulty TimeOf: without a time-period name and without "brunch" the
\* time is the night, also on the day of the previous line
TimeOf_NoCarry(context1, context2, date, previous) ==
    LET t1 == opt_is_time_string(context1)
        t2 == opt_is_time_string(context2)
        is_brunch == context1 = Some(S_brunch) \/ context2 = Some(S_brunch)
    IN  IF t1 /\ ~t2 THEN Ok(Unwrap(TimePeriod_from_str(Unwrap(context1))))
        ELSE IF ~t1 /\ t2 THEN Ok(Unwrap(TimePeriod_from_str(Unwrap(context2))))
        ELSE IF ~t1 /\ ~t2
             THEN (IF is_brunch THEN Ok("Afternoon") ELSE Ok("Night"))
        ELSE Panic("Found two time strings")

\* the match on (is_time_string(context1), is_time_string(context2))
TimeOf(context1, context2, date, previous) ==
    LET t1 == opt_is_time_string(context1)
        t2 == opt_is_time_string(context2)
        is_brunch == context1 = Some(S_brunch) \/ context2 = Some(S_brunch)
    IN  IF t1 /\ ~t2 THEN Ok(Unwrap(TimePeriod_from_str(Unwrap(context1))))
        ELSE IF ~t1 /\ t2 THEN Ok(Unwrap(TimePeriod_from_str(Unwrap(context2))))
        ELSE IF ~t1 /\ ~t2
             THEN (IF is_brunch THEN Ok("Afternoon")
                   ELSE IF date = previous.date THEN Ok(previous.time)
                   ELSE Ok("Night"))
        ELSE Panic("Found two time strings")

(***************************************************************************)
(* Bounds and inputs of the date resolver                                  *)
(***************************************************************************)
\* the year of the seed date of the import driver
BaseYear == 2018
\* how many years past BaseYear a resolved date may lie
MaxYearsAhead == 2

S_2jan == <<"2"," ","j","a","n">>
S_1jan == <<"1"," ","j","a","n">>
S_5jan == <<"5"," ","j","a","n">>
S_20dec == <<"2","0"," ","d","e","c">>
S_dec20 == <<"D","e","c"," ","2","0">>
S_5xyz == <<"5"," ","x","y","z">>
S_30feb == <<"3","0"," ","f","e","b">>
S_Night == <<"N","i","g","h","t">>
S_pub == <<"p","u","b">>
S_bar == <<"b","a","r">>
S_comma == <<",", " ">>
S_semi == <<";">>

\* the strings of ws that are not empty, joined by sep
RECURSIVE JoinWith(_, _)
JoinWith(ws, sep) ==
    IF ws = <<>> THEN <<>>
    ELSE LET rest == JoinWith(Tail(ws), sep)
         IN  IF Head(ws) = <<>> THEN rest
             ELSE IF rest = <<>> THEN Head(ws)
             ELSE Head(ws) \o sep \o rest

DayTokens == {<<>>, S_2jan, S_1jan, S_5jan, S_20dec}
ContextWords == {S_brunch, S_Night, S_evening, S_pub, S_bar}

\* the raw date fields a line may carry: absent, empty, a day token and up
\* to two free-text tokens, and fields the resolver cannot handle
DateFields ==
    {None, Some(<<>>), Some(S_dec20), Some(S_5xyz), Some(S_30feb),
     Some(JoinWith(<<S_pub, S_pub, S_pub>>, S_comma)),
     Some(JoinWith(<<S_5jan, S_morning, S_afternoon>>, S_semi))}
    \cup {Some(JoinWith(<<d, a>>, S_comma)) : d \in DayTokens, a \in ContextWords}
    \cup {Some(JoinWith(<<d, a, b>>, S_comma)) :
             d \in {<<>>, S_5jan}, a \in ContextWords, b \in ContextWords}
    \cup {Some(d) : d \in DayTokens}

\* the captures of from_entry after cap_str: None when the expression does
\* not match the text
DatePartsOfCaptures(captures) ==
    IF IsNone(captures) THEN None
    ELSE Some([day |-> date_cap_str(Unwrap(captures).day),
               context1 |-> date_cap_str(Unwrap(captures).context1),
               context2 |-> date_cap_str(Unwrap(captures).context2)])

DateParts(text) == DatePartsOfCaptures(DateRE(text))

\* DateParts and chrono_parse on the texts of the model, computed once
DateTexts == {Unwrap(f) : f \in DateFields \ {None}}
DatePartsOf == [text \in DateTexts |-> DateParts(text)]
DayTextOf(parts) ==
    IF IsSome(parts) /\ IsSome(Unwrap(parts).day) THEN {Unwrap(Unwrap(parts).day)} ELSE {}
DayTexts == UNION {DayTextOf(DatePartsOf[text]) : text \in DateTexts}
ChronoParseOf == [date \in DayTexts |-> chrono_parse(date)]

\* the date of parse_date_string for the parsed day and month
DateOfParsed(parsed, previous) ==
    IF IsNone(parsed) THEN Panic("backup parse failed!")
    ELSE LET day == Unwrap(parsed).day
             month == Unwrap(parsed).month
             year == YearFor(day, month, previous)
         IN  IF ValidYmd(year, month, day)
             THEN Ok(NaiveDate(year, month, day))
             ELSE Panic("invalid or out-of-range date")

\* DateContext::parse_date_string
parse_date_string(date, previous) == DateOfParsed(ChronoParseOf[date], previous)

\* a faulty carry-forward: the date and the time are kept, the tags are not
DateContext_absent_NoTags(previous) == Ok([previous EXCEPT !.context = <<>>])

\* from_entry when entry.date is None: return previous.clone()
DateContext_absent(previous) == Ok(previous)

\* the DateContext of from_entry for the resolved date and time
DateContext_build(date, time, context1, context2) ==
    IF ~time.ok THEN time
    ELSE Ok([date |-> date, time |-> time.val, context |-> ContextOf(context1, context2)])

\* from_entry after the date is resolved
DateContext_dated(date, context1, context2, previous) ==
    IF ~date.ok THEN date
    ELSE DateContext_build(date.val, TimeOf(context1, context2, date.val, previous),
                           context1, context2)

\* from_entry on the captures of the text
DateContext_parts(parts, previous) ==
    IF IsNone(parts) THEN Panic("called Option::unwrap() on a None value")
    ELSE DateContext_dated(IF IsSome(Unwrap(parts).day)
                           THEN parse_date_string(Unwrap(Unwrap(parts).day), previous.date)
                           ELSE Ok(previous.date),
                           Unwrap(parts).context1, Unwrap(parts).context2, previous)

\* from_entry when entry.date is Some(text)
DateContext_present(text, previous) == DateContext_parts(DatePartsOf[text], previous)

\* DateContext::from_entry(entry, previous), on entry.date
DateContext_from_entry(entry_date, previous) ==
    IF IsNone(entry_date) THEN DateContext_absent(previous)
    ELSE DateContext_present(Unwrap(entry_date), previous)

SeedDates == {NaiveDate(BaseYear, 1, 1), NaiveDate(BaseYear, 12, 20)}

(***************************************************************************)
(* import.rs: RawEntry::from_line                                          *)
(***************************************************************************)
\* the first position from i on where s holds the character c, 0 when none
IndexFrom(s, i, c) ==
    IF \E k \in i..Len(s) : s[k] = c
    THEN CHOOSE k \in i..Len(s) : s[k] = c /\ \A j \in i..(k - 1) : s[j] # c
    ELSE 0

\* the helper closure cap_str of from_line
line_cap_str(cap) == IF IsNone(cap) THEN None ELSE Some(trim(Unwrap(cap)))

\* the fields after the quantity: t is the text behind the comma that ends
\* the quantity; c2 and c3 are its first comma and the next one (0 when none).
\* name, abv and volume are lazy, and volume takes all that is left.
LineCapturesAt(date, quantity, t, c2, c3) ==
    [date |-> date,
     quantity |-> Some(quantity),
     name |-> Some(IF c2 = 0 THEN t ELSE SubSeq(t, 1, c2 - 1)),
     abv |-> IF c2 = 0 THEN None
             ELSE Some(IF c3 = 0 THEN From(t, c2 + 1) ELSE SubSeq(t, c2 + 1, c3 - 1)),
     volume |-> IF c2 = 0 \/ c3 = 0 THEN None ELSE Some(From(t, c3 + 1))]

\* ... (?P<quantity>.*?),(?P<name>.*?)(?:,(?P<abv>.*?)(?:,(?P<volume>.*?))?)?$ on t
LineFields(date, quantity, t) ==
    LineCapturesAt(date, quantity, t, IndexFrom(t, 1, ","),
                   IF IndexFrom(t, 1, ",") = 0 THEN 0
                   ELSE IndexFrom(t, IndexFrom(t, 1, ",") + 1, ","))

\* ,?(?P<quantity>.*?), ... on the text r that follows the date group; c1 is
\* the first comma of r and c1b the first comma behind a leading one.  The
\* optional comma is greedy: it is taken when a comma follows it, else it
\* ends an empty quantity.
LineAfterDate(date, r, c1, c1b) ==
    IF c1 = 0 THEN None
    ELSE IF c1 = 1 /\ c1b # 0
         THEN Some(LineFields(date, SubSeq(r, 2, c1b - 1), From(r, c1b + 1)))
    ELSE Some(LineFields(date, SubSeq(r, 1, c1 - 1), From(r, c1 + 1)))

LineRest(date, r) == LineAfterDate(date, r, IndexFrom(r, 1, ","), IndexFrom(r, 2, ","))

\* (?:\((?P<date>.*?)\))? : close is the first ")" of a line that starts
\* with "(" (0 otherwise); the group is left out when no comma follows it
LineCaptures(line, close) ==
    IF close # 0 /\ IndexFrom(line, close + 1, ",") # 0
    THEN LineRest(Some(SubSeq(line, 2, close - 1)), From(line, close + 1))
    ELSE LineRest(None, line)

\* RE.captures(line) of RawEntry::from_line
LineRE(line) ==
    LineCaptures(line, IF Len(line) > 0 /\ line[1] = "(" THEN IndexFrom(line, 2, ")") ELSE 0)

\* the RawEntry of the captures
RawEntryOf(captures) ==
    IF IsNone(captures) THEN None
    ELSE Some([date |-> line_cap_str(Unwrap(captures).date),
               quantity |-> line_cap_str(Unwrap(captures).quantity),
               name |-> line_cap_str(Unwrap(captures).name),
               abv |-> line_cap_str(Unwrap(captures).abv),
               volume |-> line_cap_str(Unwrap(captures).volume)])

\* RawEntry::from_line
RawEntry_from_line(line) == RawEntryOf(LineRE(line))

(***************************************************************************)
(* Numbers in the fields.  An f32 is kept in thousandths.                  *)
(***************************************************************************)
S_tilde == "~"

\* the last position of the run of digits that starts at i (i - 1 when
\* there is no digit at i)
DigitsEnd(s, i) ==
    IF i > Len(s) \/ ~IsDigit(s[i]) THEN i - 1
    ELSE CHOOSE j \in i..Len(s) :
            /\ \A k \in i..j : IsDigit(s[k])
            /\ (j = Len(s) \/ ~IsDigit(s[j + 1]))

\* \d+(?:\.\d+)? from a on, greedy: b is the end of the integer digits
FractionEnd(s, b) ==
    IF b + 1 <= Len(s) /\ s[b + 1] = "." /\ DigitsEnd(s, b + 2) >= b + 2
    THEN DigitsEnd(s, b + 2)
    ELSE b

NumberEndFrom(s, a, b) == IF b < a THEN 0 ELSE FractionEnd(s, b)

\* ~?\d+(?:\.\d+)? at position i, greedy: the last position of the match, 0
\* when there is none
NumberEnd(s, i) ==
    IF i <= Len(s) /\ s[i] = S_tilde
    THEN NumberEndFrom(s, i + 1, DigitsEnd(s, i + 1))
    ELSE NumberEndFrom(s, i, DigitsEnd(s, i))

\* the first position where ~?\d+ matches, 0 when none
NumberStart(s) ==
    IF \E i \in 1..Len(s) : NumberEnd(s, i) # 0
    THEN CHOOSE i \in 1..Len(s) :
            NumberEnd(s, i) # 0 /\ \A j \in 1..(i - 1) : NumberEnd(s, j) = 0
    ELSE 0

\* the digits of a fraction as thousandths; digits past the third are dropped
FractionValue(d) ==
    IF Len(d) = 0 THEN 0
    ELSE IF Len(d) = 1 THEN 100 * DecimalValue(d)
    ELSE IF Len(d) = 2 THEN 10 * DecimalValue(d)
    ELSE DecimalValue(SubSeq(d, 1, 3))

\* f32::from_str of digits with an optional fraction; dot is the position of
\* the "." (0 when none)
F32At(s, dot) ==
    IF dot = 0 THEN 1000 * DecimalValue(s)
    ELSE 1000 * DecimalValue(SubSeq(s, 1, dot - 1)) + FractionValue(From(s, dot + 1))

f32_from_str(s) == F32At(s, IndexFrom(s, 1, "."))

\* the helper closure parse_value of the from_entry functions: the number
\* and whether it carries the "~" mark
parse_value(s) ==
    IF starts_with(s, <<S_tilde>>)
    THEN [approx |-> TRUE, value |-> f32_from_str(From(s, 2))]
    ELSE [approx |-> FALSE, value |-> f32_from_str(s)]

\* \s*\-\s* at position q: the position behind it, 0 when it does not match
SpacesEnd(s, q) ==
    IF q > Len(s) \/ ~IsSpace(s[q]) THEN q - 1
    ELSE CHOOSE j \in q..Len(s) :
            /\ \A k \in q..j : IsSpace(s[k])
            /\ (j = Len(s) \/ ~IsSpace(s[j + 1]))

DashAt(s, d) == IF d <= Len(s) /\ s[d] = "-" THEN SpacesEnd(s, d + 1) + 1 ELSE 0

DashEnd(s, q) == DashAt(s, SpacesEnd(s, q) + 1)

\* the helper closure cap_index: the trimmed group, None when it is empty
cap_index(cap) ==
    IF IsNone(cap) \/ trim(Unwrap(cap)) = <<>> THEN None ELSE Some(trim(Unwrap(cap)))

(***************************************************************************)
(* import.rs: QuantityRange::from_entry                                    *)
(***************************************************************************)
\* (~?\d+(?:\.\d+)?)(?:\s*\-\s*(~?\d+(?:\.\d+)?))? : i and e1 bound the
\* first number, n2 is the start of the second one (0 when no dash follows)
\* and e2 its end (0 when no number is there)
QuantityCapturesAt(s, i, e1, n2, e2) ==
    [min |-> Some(SubSeq(s, i, e1)),
     max |-> IF n2 = 0 \/ e2 = 0 THEN None ELSE Some(SubSeq(s, n2, e2))]

QuantityTail(s, i, e1, n2) ==
    QuantityCapturesAt(s, i, e1, n2, IF n2 = 0 THEN 0 ELSE NumberEnd(s, n2))

QuantityMatchAt(s, i, e1) == QuantityTail(s, i, e1, DashEnd(s, e1 + 1))

QuantityMatch(s, i) == IF i = 0 THEN None ELSE Some(QuantityMatchAt(s, i, NumberEnd(s, i)))

\* RE.captures(quantity) of QuantityRange::from_entry
QuantityRE(s) == QuantityMatch(s, NumberStart(s))

\* a faulty QuantityOf: the mark of the first number counts for both bounds
QuantityOf_SharedFlag(min, max) ==
    [min |-> min.value, max |-> max.value,
     approximate_min |-> min.approx, approximate_max |-> min.approx]

\* the QuantityRange of the two parsed values
QuantityOf(min, max) ==
    [min |-> min.value, max |-> max.value,
     approximate_min |-> min.approx, approximate_max |-> max.approx]

QuantityOfCaptures(min, max) ==
    IF IsNone(min) THEN Panic("A minimum quantity is required!")
    ELSE IF IsNone(max) THEN Ok(QuantityOf(parse_value(Unwrap(min)), parse_value(Unwrap(min))))
    ELSE Ok(QuantityOf(parse_value(Unwrap(min)), parse_value(Unwrap(max))))

QuantityOfMatch(captures) ==
    IF IsNone(captures) THEN Panic("called Option::unwrap() on a None value")
    ELSE QuantityOfCaptures(cap_index(Unwrap(captures).min), cap_index(Unwrap(captures).max))

\* QuantityRange::from_entry
QuantityRange_from_entry(quantity) ==
    IF IsNone(quantity) THEN Panic("No quantity found!")
    ELSE QuantityOfMatch(QuantityRE(Unwrap(quantity)))

(***************************************************************************)
(* import.rs: QuantityRange::print                                         *)
(***************************************************************************)
\* the decimal digits of a natural number
RECURSIVE DecimalDigits(_)
DecimalDigits(n) ==
    IF n < 10 THEN <<DigitChars[n + 1]>>
    ELSE DecimalDigits(n \div 10) \o <<DigitChars[(n % 10) + 1]>>

\* the text of h hundredths with two decimals
HundredthsText(h) ==
    DecimalDigits(h \div 100) \o <<".">>
        \o <<DigitChars[((h % 100) \div 10) + 1], DigitChars[(h % 10) + 1]>>

\* format!("{:.2}", x) for x in thousandths, rounded to the nearest
\* hundredth.  A last digit 5 is not among the inputs: how it rounds depends
\* on the binary f32 nearest to the decimal.
format_2(x) == HundredthsText((x + 5) \div 10)

\* the "~" of an approximate bound
MarkOf(approximate) == IF approximate THEN <<S_tilde>> ELSE <<>>

\* a faulty print: the two bounds are always written
QuantityRange_print_Always(q) ==
    MarkOf(q.approximate_min) \o format_2(q.min)
        \o <<"-">> \o MarkOf(q.approximate_max) \o format_2(q.max)

\* QuantityRange::print
QuantityRange_print(q) ==
    MarkOf(q.approximate_min) \o format_2(q.min)
        \o (IF q.min # q.max \/ q.approximate_min # q.approximate_max
            THEN <<"-">> \o MarkOf(q.approximate_max) \o format_2(q.max)
            ELSE <<>>)

(***************************************************************************)
(* import.rs: Abv::from_entry                                              *)
(***************************************************************************)
IsPercentAt(s, p) == p <= Len(s) /\ s[p] = "%"

\* (?:\s*\-\s*(~?\d+(?:\.\d+)?)%?)?% tried at q: n2 is the start of the
\* second number (0 when no dash is there) and e2 its end.  The group only
\* matches when a "%" follows the number.
AbvTailOk(s, n2, e2) == n2 # 0 /\ e2 # 0 /\ IsPercentAt(s, e2 + 1)

AbvTailCaptures(s, i, e1, n2, e2, plain) ==
    IF AbvTailOk(s, n2, e2)
    THEN Some([min |-> Some(SubSeq(s, i, e1)), max |-> Some(SubSeq(s, n2, e2))])
    ELSE IF plain THEN Some([min |-> Some(SubSeq(s, i, e1)), max |-> None])
    ELSE None

AbvTailAt(s, i, e1, n2, plain) ==
    AbvTailCaptures(s, i, e1, n2, IF n2 = 0 THEN 0 ELSE NumberEnd(s, n2), plain)

\* a faulty match: behind a "%" no second number is looked for
AbvMatchAt_NoOwnPercent(s, i, e1) ==
    IF e1 = 0 THEN None
    ELSE IF IsPercentAt(s, e1 + 1) THEN AbvTailAt(s, i, e1, 0, TRUE)
    ELSE AbvTailAt(s, i, e1, DashEnd(s, e1 + 1), FALSE)

\* the match that starts at i with the first number ending at e1.  The
\* first %? is greedy: with a "%" behind the number the range group is tried
\* behind it, and without the group that same "%" is the closing one.
AbvMatchAt(s, i, e1) ==
    IF e1 = 0 THEN None
    ELSE IF IsPercentAt(s, e1 + 1) THEN AbvTailAt(s, i, e1, DashEnd(s, e1 + 2), TRUE)
    ELSE AbvTailAt(s, i, e1, DashEnd(s, e1 + 1), FALSE)

AbvMatch(s, i) == AbvMatchAt(s, i, NumberEnd(s, i))

\* RE.captures(abv) of Abv::from_entry: the match at the leftmost start
AbvRE(s) ==
    IF \E i \in 1..Len(s) : IsSome(AbvMatch(s, i))
    THEN AbvMatch(s, CHOOSE i \in 1..Len(s) :
                        IsSome(AbvMatch(s, i)) /\ \A j \in 1..(i - 1) : IsNone(AbvMatch(s, j)))
    ELSE None

AbvOfCaptures(min, max) ==
    IF IsNone(min) THEN Panic("A minimum ABV is required!")
    ELSE IF IsNone(max) THEN Ok(Some(QuantityOf(parse_value(Unwrap(min)), parse_value(Unwrap(min)))))
    ELSE Ok(Some(QuantityOf(parse_value(Unwrap(min)), parse_value(Unwrap(max)))))

\* a faulty AbvOfMatch: a field without an ABV in it is an error
AbvOfMatch_Strict(captures) ==
    IF IsNone(captures) THEN Panic("No ABV found!")
    ELSE AbvOfCaptures(cap_index(Unwrap(captures).min), cap_index(Unwrap(captures).max))

AbvOfMatch(captures) ==
    IF IsNone(captures) THEN Ok(None)
    ELSE AbvOfCaptures(cap_index(Unwrap(captures).min), cap_index(Unwrap(captures).max))

\* Abv::from_entry
Abv_from_entry(abv) == IF IsNone(abv) THEN Ok(None) ELSE AbvOfMatch(AbvRE(Unwrap(abv)))

(***************************************************************************)
(* import.rs: VolumeContext::from_entry                                    *)
(***************************************************************************)
\* the last position of the run of word characters that starts at u
WordEnd(s, u) ==
    IF u > Len(s) \/ ~IsWord(s[u]) THEN u - 1
    ELSE CHOOSE j \in u..Len(s) :
            /\ \A k \in u..j : IsWord(s[k])
            /\ (j = Len(s) \/ ~IsWord(s[j + 1]))

\* \s*(?P<unit>\w{2,}) behind a number that ends at v: the start of the unit
UnitStart(s, v) == SpacesEnd(s, v + 1) + 1

UnitFollows(s, v) == WordEnd(s, UnitStart(s, v)) >= UnitStart(s, v) + 1

\* the ends the number ~?\d+(?:\.\d+)? may take when the regex backtracks:
\* a..b are the integer digits, f the end of the greedy match
VolumeEnds(s, a, b, f) == {v \in a..f : v <= b \/ v >= b + 2}

VolumeEndsFrom(s, a, b) == IF b < a THEN {} ELSE VolumeEnds(s, a, b, FractionEnd(s, b))

VolumeEndsAt(s, i) ==
    IF i <= Len(s) /\ s[i] = S_tilde
    THEN VolumeEndsFrom(s, i + 1, DigitsEnd(s, i + 1))
    ELSE VolumeEndsFrom(s, i, DigitsEnd(s, i))

\* the ends at i that a unit follows; the regex takes the longest
VolumeGoodEnds(s, i) == {v \in VolumeEndsAt(s, i) : UnitFollows(s, v)}

VolumeCapturesAt(s, i, v) ==
    [volume |-> Some(SubSeq(s, i, v)),
     unit |-> Some(SubSeq(s, UnitStart(s, v), WordEnd(s, UnitStart(s, v))))]

VolumeLongest(s, i, ends) ==
    VolumeCapturesAt(s, i, CHOOSE v \in ends : \A w \in ends : w <= v)

VolumeMatchAt(s, i) == VolumeLongest(s, i, VolumeGoodEnds(s, i))

\* RE.captures(volume) of VolumeContext::from_entry
VolumeRE(s) ==
    IF \E i \in 1..Len(s) : VolumeGoodEnds(s, i) # {}
    THEN Some(VolumeMatchAt(s, CHOOSE i \in 1..Len(s) :
                 VolumeGoodEnds(s, i) # {} /\ \A j \in 1..(i - 1) : VolumeGoodEnds(s, j) = {}))
    ELSE None

S_oz == <<"o", "z">>
S_ml == <<"m", "l">>
S_cl == <<"c", "l">>
S_l == <<"l">>
S_fl_oz == <<"f", "l", " ", "o", "z">>

\* models.rs: VolumeUnit::from_str
VolumeUnit_from_str(unit) ==
    IF to_lowercase(unit) \in {S_fl_oz, S_oz} THEN Some("FlOz")
    ELSE IF to_lowercase(unit) = S_ml THEN Some("mL")
    ELSE IF to_lowercase(unit) = S_cl THEN Some("cL")
    ELSE IF to_lowercase(unit) = S_l THEN Some("L")
    ELSE None

\* uom: one fluid ounce is 29.57353 ml, a centilitre 10 ml, a litre 1000 ml
FlOzMlWhole == 29
FlOzMlFraction == 57353
FlOzMlScale == 100000
ClMl == 10
LMl == 1000

\* an amount of the unit, in millilitres
ToMl(amount, unit) ==
    IF unit = "FlOz"
    THEN amount * FlOzMlWhole + (amount \div 100) * ((FlOzMlFraction * 100) \div FlOzMlScale)
         + ((amount \div 100) * ((FlOzMlFraction * 100) % FlOzMlScale)
            + (amount % 100) * FlOzMlFraction) \div FlOzMlScale
    ELSE IF unit = "cL" THEN amount * ClMl
    ELSE IF unit = "L" THEN amount * LMl
    ELSE amount

\* Volume::new::<unit>(amount): the quantity, held as the amount and its unit
Volume_new(unit, amount) == [amount |-> amount, unit |-> unit]

\* Volume::get::<unit>(), for the unit the value was made with and for
\* millilitres
Volume_get(value, unit) ==
    IF unit = value.unit THEN value.amount ELSE ToMl(value.amount, value.unit)

\* the match on the unit text of VolumeContext::from_entry
VolumeOfUnit(number, unit) ==
    IF unit \in {S_oz, S_ml, S_cl, S_l}
    THEN Some([value |-> Volume_new(Unwrap(VolumeUnit_from_str(unit)), number.value),
               approximate |-> number.approx,
               original_unit |-> VolumeUnit_from_str(unit)])
    ELSE None

VolumeOfCaptures(volume_str, unit_str) ==
    IF IsNone(volume_str) \/ IsNone(unit_str) THEN None
    ELSE VolumeOfUnit(parse_value(Unwrap(volume_str)), Unwrap(unit_str))

\* the helper closure cap_str of VolumeContext::from_entry
volume_cap_str(cap) == IF IsNone(cap_index(cap)) THEN None ELSE Some(to_lowercase(Unwrap(cap_index(cap))))

VolumeOfMatch(captures) ==
    IF IsNone(captures) THEN None
    ELSE VolumeOfCaptures(volume_cap_str(Unwrap(captures).volume),
                          volume_cap_str(Unwrap(captures).unit))

\* VolumeContext::from_entry
VolumeContext_from_entry(volume) ==
    IF IsNone(volume) THEN None ELSE VolumeOfMatch(VolumeRE(Unwrap(volume)))

(***************************************************************************)
(* import.rs: Abv, Drink and DrinkSet.  An f32 is held as a whole number   *)
(* of thousandths (5.004 is 5004).                                         *)
(***************************************************************************)
\* ((x * 100.0).trunc() as i32) for x in thousandths
Trunc100(x) == x \div 10

\* a faulty equality: magnitudes less than a hundredth apart are equal
Abv_eq_Tolerance(a, b) ==
    /\ (a.min - b.min) \in -9..9
    /\ (a.max - b.max) \in -9..9
    /\ a.approximate_min = b.approximate_min
    /\ a.approximate_max = b.approximate_max

\* impl PartialEq for Abv
Abv_eq(a, b) ==
    /\ Trunc100(a.min) = Trunc100(b.min)
    /\ Trunc100(a.max) = Trunc100(b.max)
    /\ a.approximate_min = b.approximate_min
    /\ a.approximate_max = b.approximate_max

\* PartialEq of Option<Abv>
OptAbv_eq(a, b) ==
    \/ IsNone(a) /\ IsNone(b)
    \/ IsSome(a) /\ IsSome(b) /\ Abv_eq(Unwrap(a), Unwrap(b))

\* a faulty equality: the multiplier is not compared
Drink_eq_NoMultiplier(a, b) == a.name = b.name /\ OptAbv_eq(a.abv, b.abv)

\* impl PartialEq for Drink
Drink_eq(a, b) ==
    /\ a.name = b.name
    /\ OptAbv_eq(a.abv, b.abv)
    /\ Trunc100(a.multiplier) = Trunc100(b.multiplier)

\* HashMap<Drink, i32>::contains_key, with Drink's Hash and Eq
HasKey(lk, drink) == \E e \in lk : Drink_eq(e.key, drink)

\* HashMap<Drink, i32>::insert: the value of an equal key is replaced and
\* the key itself is kept
lookup_insert(lk, drink, id) ==
    IF HasKey(lk, drink)
    THEN {IF Drink_eq(e.key, drink) THEN [key |-> e.key, id |-> id] ELSE e : e \in lk}
    ELSE lk \cup {[key |-> drink, id |-> id]}

\* HashMap<i32, Drink>::insert
drinks_insert(dr, id, drink) ==
    [i \in (DOMAIN dr) \cup {id} |-> IF i = id THEN drink ELSE dr[i]]

\* a faulty find: the key must be identical, field by field
DrinkSet_find_Exact(lk, drink) ==
    IF \E e \in lk : e.key = drink
    THEN Some((CHOOSE e \in lk : e.key = drink).id)
    ELSE None

\* DrinkSet::find
DrinkSet_find(lk, drink) ==
    IF HasKey(lk, drink)
    THEN Some((CHOOSE e \in lk : Drink_eq(e.key, drink)).id)
    ELSE None

\* a faulty insert: nothing is checked, older entries are overwritten
DrinkSet_insert_Silent(dr, lk, id, drink) ==
    [ok |-> TRUE, val |-> id,
     drinks |-> drinks_insert(dr, id, drink),
     lookup |-> lookup_insert(lk, drink, id)]

\* a faulty insert: only the id is checked, an identity is silently rebound
DrinkSet_insert_IdOnly(dr, lk, id, drink) ==
    IF id \in DOMAIN dr
    THEN [ok |-> FALSE, panic |-> "Overwrote something!",
          drinks |-> drinks_insert(dr, id, drink), lookup |-> lk]
    ELSE [ok |-> TRUE, val |-> id,
          drinks |-> drinks_insert(dr, id, drink),
          lookup |-> lookup_insert(lk, drink, id)]

\* DrinkSet::insert: both maps are written, each write followed by its
\* expect_none; the record carries the maps as the call leaves them
DrinkSet_insert(dr, lk, id, drink) ==
    IF id \in DOMAIN dr
    THEN [ok |-> FALSE, panic |-> "Overwrote something!",
          drinks |-> drinks_insert(dr, id, drink), lookup |-> lk]
    ELSE IF HasKey(lk, drink)
    THEN [ok |-> FALSE, panic |-> "Overwrote something!",
          drinks |-> drinks_insert(dr, id, drink),
          lookup |-> lookup_insert(lk, drink, id)]
    ELSE [ok |-> TRUE, val |-> id,
          drinks |-> drinks_insert(dr, id, drink),
          lookup |-> lookup_insert(lk, drink, id)]

\* the Drink of Drink::from_entry for the raw name and the parsed ABV; the
\* multiplier comes from the name as it was written
DrinkOf(name, abv) ==
    IF ~abv.ok THEN abv
    ELSE Ok([name |-> to_lowercase(trim(name)),
             abv |-> abv.val,
             multiplier |-> IF contains(name, S_double) THEN 2000 ELSE 1000])

\* Drink::from_entry
Drink_from_entry(entry) ==
    IF IsNone(entry.name) THEN Panic("Missing drink name!")
    ELSE DrinkOf(Unwrap(entry.name), Abv_from_entry(entry.abv))

(***************************************************************************)
(* Bounds and inputs of the registry                                       *)
(***************************************************************************)
\* the ids a caller hands to insert are 1..MaxId
MaxId == 3

S_ipa == <<"i","p","a">>
S_beer == <<"b","e","e","r">>
S_double_ipa == S_double \o <<" ">> \o S_ipa

ExactAbv(x) == [min |-> x, max |-> x, approximate_min |-> FALSE, approximate_max |-> FALSE]

\* identities that differ in name, in ABV below and above a hundredth, in an
\* approximate flag, and in multiplier below and above a hundredth
DrinkInputs ==
    {[name |-> S_ipa, abv |-> a, multiplier |-> 1000] :
        a \in {None, Some(ExactAbv(5001)), Some(ExactAbv(5004)), Some(ExactAbv(5010)),
               Some([ExactAbv(5001) EXCEPT !.approximate_min = TRUE])}}
    \cup {[name |-> S_double_ipa, abv |-> None, multiplier |-> m] : m \in {1000, 2000, 2004}}

(***************************************************************************)
(* State of the parts no step of a specification touches                   *)
(***************************************************************************)
InitRegistry == drinks = <<>> /\ lookup = {} /\ reg_call = <<>>
InitRun == run = [pc |-> "idle"]
InitCalls == fn_call = <<>>

(***************************************************************************)
(* SpecDate: DateContext::from_entry folded over date fields, as the       *)
(* import loop folds it (previous_date = date.clone()), from any seed.     *)
(***************************************************************************)
InitDate ==
    /\ previous_date \in [date : SeedDates, time : TimePeriods, context : {<<>>}]
    /\ date_call = <<>>
    /\ panicked = ""
    /\ InitRegistry
    /\ InitRun
    /\ InitCalls

Resolve(entry_date) ==
    /\ panicked = ""
    /\ \E r \in {DateContext_from_entry(entry_date, previous_date)} :
           /\ r.ok => r.val.date.year <= BaseYear + MaxYearsAhead
           /\ date_call' = <<[entry_date |-> entry_date,
                              previous |-> previous_date,
                              result |-> r]>>
           /\ previous_date' = IF r.ok THEN r.val ELSE previous_date
           /\ panicked' = IF r.ok THEN "" ELSE r.panic
    /\ UNCHANGED <<drinks, lookup, reg_call, run, fn_call>>

NextDate == \E f \in DateFields : Resolve(f)

SpecDate == InitDate /\ [][NextDate]_vars

(***************************************************************************)
(* SpecRegistry: the calls of DrinkSet, with any id and any identity.      *)
(* A panic ends the run; the maps stay as the panicking call left them.    *)
(***************************************************************************)
InitReg ==
    /\ InitRegistry
    /\ panicked = ""
    /\ previous_date = [date |-> NaiveDate(BaseYear, 1, 1), time |-> "Evening", context |-> <<>>]
    /\ date_call = <<>>
    /\ InitRun
    /\ InitCalls

Insert(id, drink) ==
    /\ panicked = ""
    /\ \E r \in {DrinkSet_insert(drinks, lookup, id, drink)} :
           /\ drinks' = r.drinks
           /\ lookup' = r.lookup
           /\ panicked' = IF r.ok THEN "" ELSE r.panic
           /\ reg_call' = <<[op |-> "insert", id |-> id, drink |-> drink,
                             pre_drinks |-> drinks, pre_lookup |-> lookup,
                             ok |-> r.ok, found |-> None]>>
    /\ UNCHANGED <<previous_date, date_call, run, fn_call>>

Find(drink) ==
    /\ panicked = ""
    /\ reg_call' = <<[op |-> "find", id |-> 0, drink |-> drink,
                      pre_drinks |-> drinks, pre_lookup |-> lookup,
                      ok |-> TRUE, found |-> DrinkSet_find(lookup, drink)]>>
    /\ UNCHANGED <<drinks, lookup, panicked, previous_date, date_call, run, fn_call>>

NextReg ==
    \/ \E id \in 1..MaxId, drink \in DrinkInputs : Insert(id, drink)
    \/ \E drink \in DrinkInputs : Find(drink)

SpecRegistry == InitReg /\ [][NextReg]_vars

(***************************************************************************)
(* SpecFunctions: the functions of the drink identity, which have no       *)
(* state, each called on inputs of the sets below; fn_call keeps the last  *)
(* call.  SpecQuantity does the same for the functions of QuantityRange,   *)
(* SpecAbv for Abv::from_entry.                                            *)
(***************************************************************************)
InitFunctions ==
    /\ InitCalls
    /\ InitRegistry
    /\ InitRun
    /\ panicked = ""
    /\ previous_date = [date |-> NaiveDate(BaseYear, 1, 1), time |-> "Evening", context |-> <<>>]
    /\ date_call = <<>>

FnUnchanged == UNCHANGED <<previous_date, date_call, drinks, lookup, reg_call, panicked, run>>

\* Drink's == on three identities, in the orders that reflexivity, symmetry
\* and transitivity speak of
Compare(a, b, c) ==
    /\ fn_call' = <<[op |-> "eq", a |-> a, b |-> b, c |-> c,
                     aa |-> Drink_eq(a, a), ab |-> Drink_eq(a, b), ba |-> Drink_eq(b, a),
                     bc |-> Drink_eq(b, c), ac |-> Drink_eq(a, c)]>>
    /\ FnUnchanged

S_Double_IPA == <<"D","o","u","b","l","e"," ","I","P","A">>
S_DOUBLE == <<"D","O","U","B","L","E">>

\* drink names as they are written on a line or sent in a form
NameInputs ==
    {S_ipa, S_double_ipa, S_Double_IPA, S_DOUBLE, S_double, S_beer,
     S_ipa \o <<" ">> \o S_double, <<"d","o","u","b","l"," ","e">>}

\* the RawEntry of a line that holds only the given fields
EntryOf(quantity, name, abv, volume) ==
    [date |-> None, quantity |-> quantity, name |-> name, abv |-> abv, volume |-> volume]

\* bin/server.rs new_entry: the name as it is stored and the multiplier
\* derived from it
api_multiplier(form_name) ==
    IF contains(to_lowercase(trim(form_name)), S_double) THEN 2000 ELSE 1000

\* the identity of Drink::from_entry for a name, and the multiplier the
\* server derives for the same name
DeriveMultiplier(name) ==
    /\ fn_call' = <<[op |-> "multiplier", name |-> name,
                     drink |-> Drink_from_entry(EntryOf(None, Some(name), None, None)),
                     api |-> api_multiplier(name)]>>
    /\ FnUnchanged

\* decimal numbers as they are written, with their value in thousandths
NumberInputs ==
    {[text |-> <<"1">>, value |-> 1000],
     [text |-> <<"2">>, value |-> 2000],
     [text |-> <<"1", ".", "5">>, value |-> 1500],
     [text |-> <<"6", "6", ".", "6", "6", "6">>, value |-> 66666]}

\* a number with or without the "~" mark
MarkedNumbers ==
    {[text |-> n.text, value |-> n.value, approx |-> FALSE] : n \in NumberInputs}
    \cup {[text |-> <<S_tilde>> \o n.text, value |-> n.value, approx |-> TRUE] :
             n \in NumberInputs}

\* what may stand between the two numbers of a range
RangeSeparators == {<<"-">>, <<" ", "-", " ">>, <<"-", " ", " ">>}

\* the well-formed quantity fields with the range each one means
QuantityInputs ==
    {[text |-> n.text, min |-> n.value, max |-> n.value,
      approximate_min |-> n.approx, approximate_max |-> n.approx] : n \in MarkedNumbers}
    \cup {[text |-> n.text \o sep \o m.text, min |-> n.value, max |-> m.value,
           approximate_min |-> n.approx, approximate_max |-> m.approx] :
             n \in MarkedNumbers, m \in MarkedNumbers, sep \in RangeSeparators}

\* quantity fields that are no quantity: no number, a number with text
\* around it, half a range, three numbers, broken numerals
MalformedQuantities ==
    {<<>>, <<"x">>, <<"a", " ", "f", "e", "w">>, <<S_tilde>>,
     <<"2", " ">> \o S_beer, S_beer \o <<" ", "2">>,
     <<"1", "-">>, <<"-", "2">>, <<"1", "-", "x">>, <<"1", "-", "2", "-", "3">>,
     <<"1", ".">>, <<".", "5">>, <<"1", ".", ".", "2">>, <<"1", " ", "2">>,
     <<S_tilde, S_tilde, "1">>, <<"1", S_tilde>>}

QuantityFields ==
    {None} \cup {Some(q.text) : q \in QuantityInputs} \cup {Some(t) : t \in MalformedQuantities}

NextFunctions ==
    \/ \E a, b, c \in DrinkInputs : Compare(a, b, c)
    \/ \E name \in NameInputs : DeriveMultiplier(name)

SpecFunctions == InitFunctions /\ [][NextFunctions]_vars

\* QuantityRange::from_entry on the fields of the model, computed once
QuantityRangeOf == [field \in QuantityFields |-> QuantityRange_from_entry(field)]

\* QuantityRange::from_entry on a quantity field
ParseQuantity(field) ==
    /\ fn_call' = <<[op |-> "quantity", field |-> field, result |-> QuantityRangeOf[field]]>>
    /\ FnUnchanged

\* the magnitudes of the ranges that are printed, in thousandths: whole
\* and fractional ones, one with more than two decimals, and two that are
\* less than a hundredth apart
PrintValues == {1000, 2000, 1500, 66666, 1001, 1004}

RangeInputs ==
    [min : PrintValues, max : PrintValues,
     approximate_min : BOOLEAN, approximate_max : BOOLEAN]

\* print, then from_entry on the printed text, then print again
PrintQuantity(q) ==
    \E text \in {QuantityRange_print(q)} :
        \E parsed \in {QuantityRange_from_entry(Some(text))} :
            /\ fn_call' = <<[op |-> "print", range |-> q, text |-> text,
                             parsed |-> parsed,
                             again |-> IF parsed.ok THEN QuantityRange_print(parsed.val)
                                       ELSE <<>>]>>
            /\ FnUnchanged

NextQuantity ==
    \/ \E field \in QuantityFields : ParseQuantity(field)
    \/ \E q \in RangeInputs : PrintQuantity(q)

SpecQuantity == InitFunctions /\ [][NextQuantity]_vars

\* the "%" a number of an ABV field may carry of its own
OwnPercents == {<<>>, <<"%">>}

\* the well-formed ABV fields with the range each one means
AbvInputs ==
    {[text |-> n.text \o p \o <<"%">>, min |-> n.value, max |-> n.value,
      approximate_min |-> n.approx, approximate_max |-> n.approx] :
        n \in MarkedNumbers, p \in OwnPercents}
    \cup {[text |-> n.text \o p[1] \o sep \o m.text \o p[2] \o <<"%">>,
           min |-> n.value, max |-> m.value,
           approximate_min |-> n.approx, approximate_max |-> m.approx] :
             n \in MarkedNumbers, m \in MarkedNumbers, sep \in RangeSeparators,
             p \in OwnPercents \X OwnPercents}

\* ABV fields with nothing in them that is shaped like an ABV: no "%" at
\* all, no number before the "%", a blank or a hyphen before the "%"
ShapelessAbvs ==
    {<<>>, <<"5">>, <<"5", ".", "5">>, <<"3", "-", "5">>, <<S_tilde, "4">>, <<"a", "b", "c">>,
     <<"%">>, <<"x", "%">>, <<S_tilde, "%">>, <<"5", " ", "%">>, <<"5", "-", "%">>,
     <<"5", ".", "%">>}

AbvFields ==
    {None} \cup {Some(a.text) : a \in AbvInputs} \cup {Some(t) : t \in ShapelessAbvs}

\* Abv::from_entry on the fields of the model, computed once
AbvOf == [field \in AbvFields |-> Abv_from_entry(field)]

\* Abv::from_entry on an ABV field
ParseAbv(field) ==
    /\ fn_call' = <<[op |-> "abv", field |-> field, result |-> AbvOf[field]]>>
    /\ FnUnchanged

NextAbv ==
    \/ \E field \in AbvFields : ParseAbv(field)

SpecAbv == InitFunctions /\ [][NextAbv]_vars

(***************************************************************************)
(* SpecVolume: VolumeContext::from_entry on volume fields and              *)
(* LiquidVolume::to_ml on stored volumes.                                  *)
(***************************************************************************)
\* amounts as they are written, with their value in thousandths
VolumeNumbers ==
    {[text |-> <<"1", "2">>, value |-> 12000],
     [text |-> <<"5", "0", "0">>, value |-> 500000],
     [text |-> <<"1", ".", "5">>, value |-> 1500],
     [text |-> <<"6", "4">>, value |-> 64000]}

MarkedVolumes ==
    {[text |-> n.text, value |-> n.value, approx |-> FALSE] : n \in VolumeNumbers}
    \cup {[text |-> <<S_tilde>> \o n.text, value |-> n.value, approx |-> TRUE] :
             n \in VolumeNumbers}

\* the unit tokens in several letter cases, with the unit each one names
UnitTokens ==
    {[text |-> S_oz, unit |-> "FlOz"], [text |-> <<"O", "Z">>, unit |-> "FlOz"],
     [text |-> <<"O", "z">>, unit |-> "FlOz"],
     [text |-> S_fl_oz, unit |-> "FlOz"], [text |-> <<"F", "l", " ", "O", "z">>, unit |-> "FlOz"],
     [text |-> S_ml, unit |-> "mL"], [text |-> <<"M", "L">>, unit |-> "mL"],
     [text |-> <<"m", "L">>, unit |-> "mL"],
     [text |-> S_cl, unit |-> "cL"], [text |-> <<"C", "L">>, unit |-> "cL"],
     [text |-> S_l, unit |-> "L"], [text |-> <<"L">>, unit |-> "L"]}

\* word tokens that name no unit
UnknownUnits == {<<"z", "z">>, <<"p", "i", "n", "t", "s">>, <<"g", "a", "l">>, <<"K", "g">>}

\* what may stand between the number and the unit
UnitSpacings == {<<>>, <<" ">>}

\* the well-formed volume fields with the volume each one means
VolumeInputs ==
    {[text |-> n.text \o sp \o u.text, value |-> n.value, approx |-> n.approx,
      unit |-> u.unit, token |-> u.text] :
        n \in MarkedVolumes, sp \in UnitSpacings, u \in UnitTokens}

\* a number followed by a token that names no unit
UnknownUnitInputs ==
    {[text |-> n.text \o sp \o u, token |-> u] :
        n \in MarkedVolumes, sp \in UnitSpacings, u \in UnknownUnits}

\* volume fields with no number and unit in them
ShapelessVolumes == {<<>>, <<"1", "2">>, S_oz, <<S_tilde, "o", "z">>, <<"a", " ", "l", "o", "t">>}

VolumeFields ==
    {None} \cup {Some(v.text) : v \in VolumeInputs} \cup {Some(v.text) : v \in UnknownUnitInputs}
    \cup {Some(t) : t \in ShapelessVolumes}

\* VolumeContext::from_entry on the fields of the model, computed once
VolumeOf == [field \in VolumeFields |-> VolumeContext_from_entry(field)]

\* VolumeContext::from_entry on a volume field
ParseVolume(field) ==
    /\ fn_call' = <<[op |-> "volume", field |-> field, result |-> VolumeOf[field]]>>
    /\ FnUnchanged

\* LiquidVolume::to_si_volume
LiquidVolume_to_si_volume(self) == Volume_new(self.unit, self.amount.num)

\* a faulty to_ml: the amount is converted and the unit is left as it was
LiquidVolume_to_ml_KeepUnit(self) ==
    [amount |-> [num |-> Volume_get(LiquidVolume_to_si_volume(self), "mL"),
                 is_approximate |-> self.amount.is_approximate],
     unit |-> self.unit]

\* LiquidVolume::to_ml
LiquidVolume_to_ml(self) ==
    [amount |-> [num |-> Volume_get(LiquidVolume_to_si_volume(self), "mL"),
                 is_approximate |-> self.amount.is_approximate],
     unit |-> "mL"]

VolumeUnits == {"FlOz", "mL", "cL", "L"}

\* stored volumes
LiquidVolumes ==
    {[amount |-> [num |-> n.value, is_approximate |-> n.approx], unit |-> u] :
        n \in MarkedVolumes, u \in VolumeUnits}

\* to_ml on a stored volume, and on its result again; self is borrowed and
\* is still there after the call
ConvertToMl(self) ==
    /\ \E ml \in {LiquidVolume_to_ml(self)} :
          fn_call' = <<[op |-> "to_ml", self |-> self, after |-> self, result |-> ml,
                        again |-> LiquidVolume_to_ml(ml)]>>
    /\ FnUnchanged

NextVolume ==
    \/ \E field \in VolumeFields : ParseVolume(field)
    \/ \E self \in LiquidVolumes : ConvertToMl(self)

SpecVolume == InitFunctions /\ [][NextVolume]_vars

(***************************************************************************)
(* SpecReports: models.rs ApproxF32::min / max and reports.rs              *)
(* DrinkAggregator::aggregate on entries as db.rs reads them.              *)
(***************************************************************************)
\* the f32 product and quotient of two numbers held in thousandths, cut to
\* the thousandth
F32Mul(a, b) == (a \div 1000) * b + ((a % 1000) * b) \div 1000

F32Div(a, b) == (a * 1000) \div b

\* static APPROX_MODIFIER: f32 = 0.1
APPROX_MODIFIER == 100

\* (!self.is_approximate as i32) as f32
NotApproximate(self) == IF self.is_approximate THEN 0 ELSE 1000

\* APPROX_MODIFIER + ((!self.is_approximate as i32) as f32 * -1.0 * APPROX_MODIFIER)
ApproxShare(self) ==
    APPROX_MODIFIER + F32Mul(F32Mul(NotApproximate(self), -1000), APPROX_MODIFIER)

\* a faulty min: the modifier is taken off whether the value is approximate
\* or not
ApproxF32_min_Always(self) == F32Mul(self.num, 1000 - APPROX_MODIFIER)

\* ApproxF32::min
ApproxF32_min(self) == F32Mul(self.num, 1000 - ApproxShare(self))

\* ApproxF32::max
ApproxF32_max(self) == F32Mul(self.num, 1000 + ApproxShare(self))

\* db.rs: Entry::min_quantity, max_quantity, min_abv, max_abv
Entry_min_quantity(self) == ApproxF32_min(self.min_quantity)

Entry_max_quantity(self) == ApproxF32_max(self.max_quantity)

Entry_min_abv(self) ==
    IF IsNone(self.min_abv) THEN None ELSE Some(ApproxF32_min(Unwrap(self.min_abv)))

Entry_max_abv(self) ==
    IF IsNone(self.max_abv) THEN None ELSE Some(ApproxF32_max(Unwrap(self.max_abv)))

\* db.rs: Entry::has_abv, without its assertion
Entry_has_abv(self) == IsSome(self.min_abv)

\* db.rs: Entry::has_volume
Entry_has_volume(self) == IsSome(self.volume)

\* the closures of aggregate: the volume with its amount scaled
ScaledVolume(volume, amount, quantity, multiplier) ==
    IF IsNone(volume) THEN None
    ELSE Some([amount |-> [num |-> F32Mul(F32Mul(amount, quantity), multiplier),
                           is_approximate |-> Unwrap(volume).amount.is_approximate],
               unit |-> Unwrap(volume).unit])

VolumeNum(volume) == IF IsNone(volume) THEN 0 ELSE Unwrap(volume).amount.num

VolumeMin(volume) == IF IsNone(volume) THEN 0 ELSE ApproxF32_min(Unwrap(volume).amount)

VolumeMax(volume) == IF IsNone(volume) THEN 0 ELSE ApproxF32_max(Unwrap(volume).amount)

\* a faulty fallback: the multiplier is left out of the drink counts
FallbackAggregate_NoMultiplier(self) ==
    Ok([min_drinks |-> Entry_min_quantity(self),
        max_drinks |-> Entry_max_quantity(self),
        min_volume |-> ScaledVolume(self.volume, VolumeNum(self.volume),
                                    Entry_min_quantity(self), self.multiplier),
        max_volume |-> ScaledVolume(self.volume, VolumeNum(self.volume),
                                    Entry_max_quantity(self), self.multiplier)])

\* aggregate without ABV or without volume
FallbackAggregate(self) ==
    Ok([min_drinks |-> F32Mul(Entry_min_quantity(self), self.multiplier),
        max_drinks |-> F32Mul(Entry_max_quantity(self), self.multiplier),
        min_volume |-> ScaledVolume(self.volume, VolumeNum(self.volume),
                                    Entry_min_quantity(self), self.multiplier),
        max_volume |-> ScaledVolume(self.volume, VolumeNum(self.volume),
                                    Entry_max_quantity(self), self.multiplier)])

\* let ml_per_drink = 18.0
ml_per_drink == 18000

\* quantity * (abv / 100.0) * volume / ml_per_drink
DrinksOf(quantity, abv, volume) ==
    F32Div(F32Mul(F32Mul(quantity, F32Div(abv, 100000)), volume), ml_per_drink)

\* a faulty aggregate: the drinks are counted from the volume in its own unit
FullAggregate_OriginalUnit(self) ==
    IF IsNone(self.volume_ml) THEN Panic("Missing volume!")
    ELSE Ok([min_drinks |-> DrinksOf(Entry_min_quantity(self), Unwrap(Entry_min_abv(self)),
                                     VolumeMin(self.volume)),
             max_drinks |-> DrinksOf(Entry_max_quantity(self), Unwrap(Entry_max_abv(self)),
                                     VolumeMax(self.volume)),
             min_volume |-> ScaledVolume(self.volume, VolumeMin(self.volume),
                                         Entry_min_quantity(self), self.multiplier),
             max_volume |-> ScaledVolume(self.volume, VolumeMax(self.volume),
                                         Entry_max_quantity(self), self.multiplier)])

\* aggregate with ABV and volume
FullAggregate(self) ==
    IF IsNone(self.volume_ml) THEN Panic("Missing volume!")
    ELSE Ok([min_drinks |-> DrinksOf(Entry_min_quantity(self), Unwrap(Entry_min_abv(self)),
                                     ApproxF32_min(Unwrap(self.volume_ml).amount)),
             max_drinks |-> DrinksOf(Entry_max_quantity(self), Unwrap(Entry_max_abv(self)),
                                     ApproxF32_max(Unwrap(self.volume_ml).amount)),
             min_volume |-> ScaledVolume(self.volume, VolumeMin(self.volume),
                                         Entry_min_quantity(self), self.multiplier),
             max_volume |-> ScaledVolume(self.volume, VolumeMax(self.volume),
                                         Entry_max_quantity(self), self.multiplier)])

\* reports.rs: impl DrinkAggregator for Entry, aggregate
aggregate(self) ==
    IF IsSome(self.min_abv) # IsSome(self.max_abv)
    THEN Panic("assertion failed: (left == right)")
    ELSE IF ~Entry_has_abv(self) \/ ~Entry_has_volume(self) THEN FallbackAggregate(self)
    ELSE FullAggregate(self)

\* magnitudes, in thousandths
ApproxNums == {0, 1000, 1500, 66666, 354882, -1000}

ApproxValues == {[num |-> n, is_approximate |-> a] : n \in ApproxNums, a \in BOOLEAN}

\* the quantity, ABV and volume columns of the entries
EntryQuantities ==
    {[min |-> [num |-> 1000, is_approximate |-> FALSE], max |-> [num |-> 2000, is_approximate |-> FALSE]],
     [min |-> [num |-> 2000, is_approximate |-> FALSE], max |-> [num |-> 2000, is_approximate |-> FALSE]],
     [min |-> [num |-> 2000, is_approximate |-> TRUE], max |-> [num |-> 3000, is_approximate |-> TRUE]],
     [min |-> [num |-> 1500, is_approximate |-> FALSE], max |-> [num |-> 1500, is_approximate |-> TRUE]],
     [min |-> [num |-> 3000, is_approximate |-> FALSE], max |-> [num |-> 1000, is_approximate |-> FALSE]]}

EntryAbvs ==
    {[min |-> None, max |-> None],
     [min |-> Some([num |-> 5000, is_approximate |-> FALSE]),
      max |-> Some([num |-> 5000, is_approximate |-> FALSE])],
     [min |-> Some([num |-> 4000, is_approximate |-> TRUE]),
      max |-> Some([num |-> 6000, is_approximate |-> TRUE])],
     [min |-> Some([num |-> 7000, is_approximate |-> FALSE]),
      max |-> Some([num |-> 5000, is_approximate |-> FALSE])]}

EntryVolumes ==
    {None,
     Some([amount |-> [num |-> 12000, is_approximate |-> FALSE], unit |-> "FlOz"]),
     Some([amount |-> [num |-> 500000, is_approximate |-> TRUE], unit |-> "mL"]),
     Some([amount |-> [num |-> 33000, is_approximate |-> FALSE], unit |-> "cL"])}

EntryMultipliers == {1000, 2000}

\* CreateEntry stores the volume and its to_ml together
VolumeMlOf(volume) == IF IsNone(volume) THEN None ELSE Some(LiquidVolume_to_ml(Unwrap(volume)))

\* entries as GetDrinks reads them: the columns aggregate looks at
Entries ==
    {[min_quantity |-> q.min, max_quantity |-> q.max, min_abv |-> a.min, max_abv |-> a.max,
      multiplier |-> m, volume |-> v, volume_ml |-> VolumeMlOf(v)] :
        q \in EntryQuantities, a \in EntryAbvs, m \in EntryMultipliers, v \in EntryVolumes}

\* ApproxF32::min and ApproxF32::max on a value
Bounds(self) ==
    /\ fn_call' = <<[op |-> "bounds", self |-> self,
                     min |-> ApproxF32_min(self), max |-> ApproxF32_max(self)]>>
    /\ FnUnchanged

\* aggregate on an entry
Aggregate(self) ==
    /\ fn_call' = <<[op |-> "aggregate", self |-> self, result |-> aggregate(self)]>>
    /\ FnUnchanged

NextReports ==
    \/ \E self \in ApproxValues : Bounds(self)
    \/ \E self \in Entries : Aggregate(self)

SpecReports == InitFunctions /\ [][NextReports]_vars

(***************************************************************************)
(* Spec: the import run, bin/import.rs main.  Each step reads one line of  *)
(* the file and takes it through the whole loop body.                      *)
(***************************************************************************)
\* the file has at most MaxLines lines
MaxLines == 3

LineOf(date, body) ==
    IF IsNone(date) THEN body ELSE <<"(">> \o Unwrap(date) \o <<")", " ">> \o body

\* date groups of the lines: none, a day, a day with brunch, two time names
LineDates ==
    {None, Some(S_20dec), Some(JoinWith(<<S_5jan, S_brunch>>, S_comma)),
     Some(JoinWith(<<S_Night, S_evening>>, S_comma))}

\* what follows the date group: no comma at all; all four fields; a second
\* spelling of the same drink; a range and a double; a quantity without a
\* number; an ABV and a volume that do not parse; approximate values
LineBodies ==
    {S_beer,
     <<"2", ",", " ">> \o S_ipa \o <<",", " ", "5", "%", ",", " ", "1", "2", " ">> \o S_oz,
     <<"1", ",", "I", "P", "A", ",", "5", ".", "0", "0", "4", "%">>,
     <<"1", "-", "2", ",", " ">> \o S_double_ipa,
     <<"x", ",", " ">> \o S_ipa,
     <<"1", ",">> \o S_ipa \o <<",", "a", "b", "c", ",", "2">> \o S_l,
     <<"~", "1", ",">> \o S_ipa \o <<",", "4", "-", "5", "%", ",", "3", "3", "0">> \o S_ml,
     <<" ", ",", ",", " ">>}

ImportLines == {LineOf(d, b) : d \in LineDates, b \in LineBodies}

\* the three field parsers of the loop body on one RawEntry
FieldsOfEntry(entry) ==
    IF IsNone(entry) THEN [entry |-> None]
    ELSE [entry |-> entry,
          drink |-> Drink_from_entry(Unwrap(entry)),
          quantity |-> QuantityRange_from_entry(Unwrap(entry).quantity),
          volume |-> VolumeContext_from_entry(Unwrap(entry).volume)]

\* RawEntry::from_line(&line.trim()) and the parsers, for every line
LineParsedOf == [line \in ImportLines |-> FieldsOfEntry(RawEntry_from_line(trim(line)))]

\* bin/import.rs create_drink: the row the database returns; ids are serial
create_drink(db_drinks, drink) ==
    [id |-> Len(db_drinks) + 1,
     name |-> drink.name,
     min_abv |-> IF IsNone(drink.abv) THEN None
                 ELSE Some([num |-> Unwrap(drink.abv).min,
                            is_approximate |-> Unwrap(drink.abv).approximate_min]),
     max_abv |-> IF IsNone(drink.abv) THEN None
                 ELSE Some([num |-> Unwrap(drink.abv).max,
                            is_approximate |-> Unwrap(drink.abv).approximate_max]),
     multiplier |-> 1000]

\* the volume columns of create_entry
LiquidVolumeOf(volume, unit) ==
    IF IsNone(volume) THEN None
    ELSE Some([amount |-> [num |-> Volume_get(Unwrap(volume).value, unit),
                           is_approximate |-> Unwrap(volume).approximate],
               unit |-> unit])

OriginalUnit(volume) == IF IsNone(volume) THEN "mL" ELSE Unwrap(Unwrap(volume).original_unit)

\* bin/import.rs create_entry: the row that is stored
create_entry(db_entries, drink_id, date, quantity, volume) ==
    [id |-> Len(db_entries) + 1,
     person_id |-> 1,
     drank_on |-> date.date,
     time_period |-> date.time,
     drink_id |-> drink_id,
     min_quantity |-> [num |-> quantity.min, is_approximate |-> quantity.approximate_min],
     max_quantity |-> [num |-> quantity.max, is_approximate |-> quantity.approximate_max],
     volume |-> LiquidVolumeOf(volume, OriginalUnit(volume)),
     volume_ml |-> LiquidVolumeOf(volume, "mL")]

InitImport ==
    /\ previous_date = [date |-> NaiveDate(BaseYear, 1, 1), time |-> "Evening", context |-> <<>>]
    /\ date_call = <<>>
    /\ panicked = ""
    /\ InitRegistry
    /\ InitCalls
    /\ run = [pc |-> "reading", line_no |-> 0, errors |-> 0, last |-> <<>>,
              db_drinks |-> <<>>, db_entries |-> <<>>]

\* what the loop body did with the line: its outcome ("skipped", "stored"
\* or "panic") and, for a panic, the call that raised it
LineDone(line, entry, outcome, at) ==
    <<[line |-> line, entry |-> entry, outcome |-> outcome, at |-> at]>>

\* the None arm of the match on from_line: the ERROR line is printed and
\* the loop goes on
SkipLine(line) ==
    /\ run' = [run EXCEPT !.line_no = @ + 1, !.errors = @ + 1,
                          !.last = LineDone(line, None, "skipped", "from_line")]
    /\ UNCHANGED <<previous_date, date_call, drinks, lookup, reg_call, panicked, fn_call>>

\* a panic in the loop body: the process ends at this line
AbortLine(line, entry, date, dr, lk, at, msg) ==
    /\ panicked' = msg
    /\ previous_date' = date
    /\ drinks' = dr
    /\ lookup' = lk
    /\ run' = [run EXCEPT !.line_no = @ + 1, !.last = LineDone(line, Some(entry), "panic", at)]
    /\ UNCHANGED <<date_call, reg_call, fn_call>>

\* create_entry and the end of the loop body
SaveEntry(line, entry, date, id, quantity, volume, dr, lk, db_drinks) ==
    /\ previous_date' = date
    /\ drinks' = dr
    /\ lookup' = lk
    /\ run' = [run EXCEPT !.line_no = @ + 1,
                          !.last = LineDone(line, Some(entry), "stored", ""),
                          !.db_drinks = db_drinks,
                          !.db_entries = Append(@, create_entry(@, id, date, quantity, volume))]
    /\ UNCHANGED <<date_call, reg_call, panicked, fn_call>>

\* the None arm of the match on find: create_drink, then DrinkSet::insert
CreateAndSave(line, entry, date, drink, quantity, volume, row) ==
    \E r \in {DrinkSet_insert(drinks, lookup, row.id, drink)} :
        IF ~r.ok
        THEN AbortLine(line, entry, date, r.drinks, r.lookup, "DrinkSet::insert", r.panic)
        ELSE SaveEntry(line, entry, date, r.val, quantity, volume, r.drinks, r.lookup,
                       Append(run.db_drinks, row))

\* the match on drink_set.find
StoreEntry(line, entry, date, drink, quantity, volume) ==
    \E found \in {DrinkSet_find(lookup, drink)} :
        IF IsSome(found)
        THEN SaveEntry(line, entry, date, Unwrap(found), quantity, volume,
                       drinks, lookup, run.db_drinks)
        ELSE CreateAndSave(line, entry, date, drink, quantity, volume,
                           create_drink(run.db_drinks, drink))

\* the loop body behind from_line: the date first, then the parsers in the
\* order of the calls; the first panic ends the run
ImportEntry(line, entry, drink, quantity, volume) ==
    \E date \in {DateContext_from_entry(entry.date, previous_date)} :
        IF ~date.ok
        THEN AbortLine(line, entry, previous_date, drinks, lookup,
                       "DateContext::from_entry", date.panic)
        ELSE IF ~drink.ok
        THEN AbortLine(line, entry, date.val, drinks, lookup, "Drink::from_entry", drink.panic)
        ELSE IF ~quantity.ok
        THEN AbortLine(line, entry, date.val, drinks, lookup,
                       "QuantityRange::from_entry", quantity.panic)
        ELSE StoreEntry(line, entry, date.val, drink.val, quantity.val, volume)

\* one turn of the while loop of main
ReadLine(line) ==
    /\ panicked = ""
    /\ run.pc = "reading"
    /\ run.line_no < MaxLines
    /\ \E p \in {LineParsedOf[line]} :
           IF IsNone(p.entry) THEN SkipLine(line)
           ELSE ImportEntry(line, Unwrap(p.entry), p.drink, p.quantity, p.volume)

\* read_line returns 0: main returns Ok(())
EndOfFile ==
    /\ panicked = ""
    /\ run.pc = "reading"
    /\ run' = [run EXCEPT !.pc = "done"]
    /\ UNCHANGED <<previous_date, date_call, drinks, lookup, reg_call, panicked, fn_call>>

Next ==
    \/ \E line \in ImportLines : ReadLine(line)
    \/ EndOfFile

Spec == InitImport /\ [][Next]_vars

(***************************************************************************)
(* SpecServer: bin/server.rs new_entry.  A request is parsed in the        *)
(* handler and then runs its queries one after the other, each one a       *)
(* blocking task of its own on a connection of the pool (db::execute);     *)
(* the queries of different requests interleave.                           *)
(***************************************************************************)
\* requests in flight at one time, and requests accepted in all
Clients == {1, 2}

MaxRequests == 3

S_noon == <<"n", "o", "o", "n">>
S_IPA_blank == <<" ", "I", "P", "A">>
S_5percent == <<"5", "%">>
S_1 == <<"1">>
S_x == <<"x">>

FormTimes == {S_evening, S_noon}
FormQuantities == {S_1, S_x}
FormNames == {S_ipa, S_IPA_blank, S_double_ipa}
FormAbvs == {None, Some(S_5percent)}

EntryForms ==
    {[time_period |-> t, quantity |-> q, name |-> n, abv |-> a] :
        t \in FormTimes, q \in FormQuantities, n \in FormNames, a \in FormAbvs}

\* the parsers of the handler on the fields of the forms, computed once
FormQuantityOf == [q \in FormQuantities |-> QuantityRange_from_entry(Some(q))]

FormAbvOf == [a \in FormAbvs |-> Abv_from_entry(a)]

\* a request: where it stands, what the handler parsed, and the ids it got
IdleRequest ==
    [pc |-> "idle", name |-> <<>>, abv |-> None, multiplier |-> 0, drink_id |-> 0,
     entry_id |-> 0, status |-> 0]

InitServer ==
    /\ InitCalls
    /\ InitRegistry
    /\ panicked = ""
    /\ previous_date = [date |-> NaiveDate(BaseYear, 1, 1), time |-> "Evening", context |-> <<>>]
    /\ date_call = <<>>
    /\ run = [pc |-> "serving", accepted |-> 0, drink |-> <<>>, entry |-> <<>>,
              req |-> [c \in Clients |-> IdleRequest]]

ServerUnchanged ==
    UNCHANGED <<previous_date, date_call, drinks, lookup, reg_call, panicked, fn_call>>

\* SQL =: a comparison with NULL is not true
SqlEq(a, b) == IsSome(a) /\ IsSome(b) /\ a = b

AbvMin(abv) ==
    IF IsNone(abv) THEN None
    ELSE Some([num |-> Unwrap(abv).min, is_approximate |-> Unwrap(abv).approximate_min])

AbvMax(abv) ==
    IF IsNone(abv) THEN None
    ELSE Some([num |-> Unwrap(abv).max, is_approximate |-> Unwrap(abv).approximate_max])

\* db.rs GetDrink: the rows that pass the filter
GetDrink(table, name, abv) ==
    {i \in 1..Len(table) :
        /\ to_lowercase(table[i].name) = to_lowercase(name)
        /\ SqlEq(table[i].min_abv, AbvMin(abv))
        /\ SqlEq(table[i].max_abv, AbvMax(abv))}

\* db.rs CreateDrink: the row that is inserted; ids are serial
CreateDrink(table, name, abv, multiplier) ==
    [id |-> Len(table) + 1, name |-> name, min_abv |-> AbvMin(abv), max_abv |-> AbvMax(abv),
     multiplier |-> multiplier]

\* the handler up to the first query: a field that does not parse is
\* answered with 400 Bad Request
Parsed(form, quantity, abv) ==
    IF IsNone(TimePeriod_from_str(to_lowercase(form.time_period))) \/ ~quantity.ok \/ ~abv.ok
    THEN [IdleRequest EXCEPT !.pc = "responded", !.status = 400]
    ELSE [IdleRequest EXCEPT !.pc = "get_drink", !.name = trim(form.name), !.abv = abv.val,
                             !.multiplier = api_multiplier(form.name)]

\* POST /drink arrives and new_entry runs up to its first query
NewEntry(c, form) ==
    /\ run.pc = "serving"
    /\ run.req[c].pc \in {"idle", "responded"}
    /\ run.accepted < MaxRequests
    /\ run' = [run EXCEPT !.accepted = @ + 1,
                          !.req[c] = Parsed(form, FormQuantityOf[form.quantity],
                                            FormAbvOf[form.abv])]
    /\ ServerUnchanged

\* the GetDrink query of get_or_create_drink runs: Some(drink) goes on to
\* create_entry, None to create_drink
RunGetDrink(c) ==
    /\ run.pc = "serving"
    /\ run.req[c].pc = "get_drink"
    /\ \E found \in {GetDrink(run.drink, run.req[c].name, run.req[c].abv)} :
          IF found = {}
          THEN run' = [run EXCEPT !.req[c].pc = "create_drink"]
          ELSE \E i \in found :
                  run' = [run EXCEPT !.req[c].pc = "create_entry", !.req[c].drink_id = i]
    /\ ServerUnchanged

\* the CreateDrink query runs
RunCreateDrink(c) ==
    /\ run.pc = "serving"
    /\ run.req[c].pc = "create_drink"
    /\ \E row \in {CreateDrink(run.drink, run.req[c].name, run.req[c].abv,
                               run.req[c].multiplier)} :
          run' = [run EXCEPT !.drink = Append(@, row),
                             !.req[c].pc = "create_entry", !.req[c].drink_id = row.id]
    /\ ServerUnchanged

\* the CreateEntry query runs
RunCreateEntry(c) ==
    /\ run.pc = "serving"
    /\ run.req[c].pc = "create_entry"
    /\ run' = [run EXCEPT !.entry = Append(@, [id |-> Len(@) + 1, person_id |-> 1,
                                               drink_id |-> run.req[c].drink_id]),
                          !.req[c].pc = "get_entry", !.req[c].entry_id = Len(run.entry) + 1]
    /\ ServerUnchanged

\* the GetEntry query runs and the entry is sent back
RunGetEntry(c) ==
    /\ run.pc = "serving"
    /\ run.req[c].pc = "get_entry"
    /\ run' = [run EXCEPT !.req[c].pc = "responded", !.req[c].status = 200]
    /\ ServerUnchanged

NextServer ==
    \/ \E c \in Clients, form \in EntryForms : NewEntry(c, form)
    \/ \E c \in Clients : RunGetDrink(c)
    \/ \E c \in Clients : RunCreateDrink(c)
    \/ \E c \in Clients : RunCreateEntry(c)
    \/ \E c \in Clients : RunGetEntry(c)

SpecServer == InitServer /\ [][NextServer]_vars

(***************************************************************************)
(* Properties of the date resolver (checked under SpecDate)                *)
(***************************************************************************)
DateCalled == date_call # <<>>
\* the last call of from_entry: its entry.date, its previous and its result
DC == date_call[1]
DatePresent == DateCalled /\ IsSome(DC.entry_date)
\* the last call's text matched the date expression
DateMatched == DatePresent /\ IsSome(DatePartsOf[Unwrap(DC.entry_date)])
\* the lower-cased day token and free-text tokens of the last call
DCParts == Unwrap(DatePartsOf[Unwrap(DC.entry_date)])
\* the free-text tokens of the last call, as Options
DCTokens == {DCParts.context1, DCParts.context2}

\* the closed set of time-period names
PeriodNames == {<<S_morning, "Morning">>, <<S_afternoon, "Afternoon">>,
                <<S_evening, "Evening">>, <<S_night, "Night">>}
NamesPeriod(token) == IsSome(token) /\ \E p \in PeriodNames : p[1] = Unwrap(token)
PeriodNamed(token) == (CHOOSE p \in PeriodNames : p[1] = Unwrap(token))[2]

\* C1: from_entry on a line without a date field returns the previous
\* DateContext unchanged: same date, same time period, same context list.
C1_AbsentDateCarriesForward ==
    (DateCalled /\ IsNone(DC.entry_date)) =>
        /\ DC.result.ok
        /\ DC.result.val.date = DC.previous.date
        /\ DC.result.val.time = DC.previous.time
        /\ DC.result.val.context = DC.previous.context
        /\ previous_date = DC.previous

\* an absent date field after a previous context that carries a tag
C1_Witness ==
    /\ DateCalled
    /\ IsNone(DC.entry_date)
    /\ DC.previous.context = <<S_pub>>
    /\ DC.previous.time = "Morning"
    /\ DC.result.ok

\* (month, day) of the last call's day token, when chrono parses it
DCDayMonth == Unwrap(ChronoParseOf[Unwrap(DCParts.day)])
DCHasDayMonth ==
    DateMatched /\ IsSome(DCParts.day) /\ IsSome(ChronoParseOf[Unwrap(DCParts.day)])

\* C2: a day token that lies before the previous date within the year
\* (previous 2018-12-20, token "2 jan") resolves to that day and month in the
\* year after the previous date's year (2019-01-02).
C2_NewYearRollover ==
    (/\ DCHasDayMonth
     /\ \/ DCDayMonth.month < DC.previous.date.month
        \/ /\ DCDayMonth.month = DC.previous.date.month
           /\ DCDayMonth.day < DC.previous.date.day) =>
        /\ DC.result.ok
        /\ DC.result.val.date =
               NaiveDate(DC.previous.date.year + 1, DCDayMonth.month, DCDayMonth.day)

\* C3: a date field with the tag "brunch" and no time-period name resolves
\* to the afternoon and does not keep "brunch" in the context list.
C3_BrunchConsumed ==
    (/\ DateMatched
     /\ Some(S_brunch) \in DCTokens
     /\ \A t \in DCTokens : ~NamesPeriod(t)
     /\ DC.result.ok) =>
        /\ DC.result.val.time = "Afternoon"
        /\ \A i \in 1..Len(DC.result.val.context) : DC.result.val.context[i] # S_brunch

\* C9: when exactly one of the two free-text tokens is a time-period name
\* (in any letter case), the resolved time is that period, whatever the
\* previous time was and whatever the other token is.
C9_SingleTimeNameWins ==
    (/\ DateMatched
     /\ DC.result.ok
     /\ NamesPeriod(DCParts.context1) # NamesPeriod(DCParts.context2)) =>
        DC.result.val.time =
            IF NamesPeriod(DCParts.context1) THEN PeriodNamed(DCParts.context1)
            ELSE PeriodNamed(DCParts.context2)

\* "5 jan, brunch, Night" after a morning: the night, not the afternoon
C9_Witness ==
    /\ DateCalled
    /\ DC.entry_date = Some(JoinWith(<<S_5jan, S_brunch, S_Night>>, S_comma))
    /\ DC.previous.time = "Morning"
    /\ DC.result.ok
    /\ DC.result.val.time = "Night"

\* C10: when both free-text tokens are time-period names the resolver panics
\* and no resolved context comes out of the call.
C10_TwoTimeNamesPanic ==
    (/\ DateMatched
     /\ NamesPeriod(DCParts.context1)
     /\ NamesPeriod(DCParts.context2)) =>
        /\ ~DC.result.ok
        /\ panicked # ""
        /\ previous_date = DC.previous

\* "5 jan;morning;afternoon" ends in the panic of the (true, true) arm
C10_Witness ==
    /\ DateCalled
    /\ DC.entry_date = Some(JoinWith(<<S_5jan, S_morning, S_afternoon>>, S_semi))
    /\ ~DC.result.ok
    /\ DC.result.panic = "Found two time strings"

\* C11: with a date field whose free-text tokens name no time period, the
\* resolved time is the afternoon when a token is "brunch"; otherwise the
\* previous time when the resolved date is the previous date; otherwise the
\* night.
C11_TimeWithoutPeriodName ==
    (/\ DateMatched
     /\ DC.result.ok
     /\ \A t \in DCTokens : ~NamesPeriod(t)) =>
        DC.result.val.time =
            IF Some(S_brunch) \in DCTokens THEN "Afternoon"
            ELSE IF DC.result.val.date = DC.previous.date THEN DC.previous.time
            ELSE "Night"

\* "pub" alone after a morning: the date stays and the morning is kept
C11_Witness ==
    /\ DateCalled
    /\ DC.entry_date = Some(S_pub)
    /\ DC.previous.time = "Morning"
    /\ DC.result.ok
    /\ DC.result.val.date = DC.previous.date
    /\ DC.result.val.time = "Morning"

\* "5 jan, pub" on another day than the previous one: the night
C11_WitnessNight ==
    /\ DateCalled
    /\ DC.entry_date = Some(JoinWith(<<S_5jan, S_pub>>, S_comma))
    /\ DC.previous.time = "Morning"
    /\ DC.result.ok
    /\ DC.result.val.date # DC.previous.date
    /\ DC.result.val.time = "Night"

\* the free-text tokens of the last call in the order they are written: the
\* group context2 stands before the group context1 in the expression
DCWritten == <<DCParts.context2, DCParts.context1>>
\* the token was taken as the signal of the time period
DCConsumed(token) ==
    \/ NamesPeriod(token)
    \/ token = Some(S_brunch) /\ \A t \in DCTokens : ~NamesPeriod(t)
DCKept(token) == IsSome(token) /\ ~DCConsumed(token)
DCExpectedContext ==
    IF DCKept(DCWritten[1]) /\ DCKept(DCWritten[2])
    THEN <<Unwrap(DCWritten[1]), Unwrap(DCWritten[2])>>
    ELSE IF DCKept(DCWritten[1]) THEN <<Unwrap(DCWritten[1])>>
    ELSE IF DCKept(DCWritten[2]) THEN <<Unwrap(DCWritten[2])>>
    ELSE <<>>

\* C12: the context list of a present date field holds exactly the free-text
\* tokens that were not taken as the time-period signal, the first written
\* token first, and never more than two entries.
C12_ContextInWrittenOrder ==
    (DateMatched /\ DC.result.ok) =>
        /\ DC.result.val.context = DCExpectedContext
        /\ Len(DC.result.val.context) <= 2

\* "5 jan, pub, bar" comes out as <<"bar", "pub">>
C12_Reversed ==
    /\ DateCalled
    /\ DC.entry_date = Some(JoinWith(<<S_5jan, S_pub, S_bar>>, S_comma))
    /\ DC.result.ok
    /\ DC.result.val.context = <<S_bar, S_pub>>

(***************************************************************************)
(* Properties of the registry (checked under SpecRegistry)                 *)
(***************************************************************************)
RegCalled == reg_call # <<>>
\* the last call of DrinkSet
RC == reg_call[1]
\* the ids registered with an identity equal to drink, in the map dr
IdsOf(dr, drink) == {i \in DOMAIN dr : Drink_eq(dr[i], drink)}

\* C4: as long as every insert has succeeded the registry is a bijection:
\* every registered id has one identity, no two ids have equal identities,
\* and the two maps are inverses of each other.
C4_RegistryBijection ==
    panicked = "" =>
        /\ \A i, j \in DOMAIN drinks : Drink_eq(drinks[i], drinks[j]) => i = j
        /\ \A e, f \in lookup : Drink_eq(e.key, f.key) => e = f
        /\ \A i \in DOMAIN drinks : DrinkSet_find(lookup, drinks[i]) = Some(i)
        /\ \A e \in lookup : e.id \in DOMAIN drinks /\ Drink_eq(drinks[e.id], e.key)
        /\ Cardinality(lookup) = Cardinality(DOMAIN drinks)

\* three successful inserts
C4_Witness ==
    /\ panicked = ""
    /\ Cardinality(DOMAIN drinks) = 3
    /\ RegCalled /\ RC.op = "insert" /\ RC.ok

\* C5: insert panics whenever the id is already registered or an identity
\* equal to the given one is already registered.
C5_DuplicateInsertPanics ==
    (/\ RegCalled
     /\ RC.op = "insert"
     /\ \/ RC.id \in DOMAIN RC.pre_drinks
        \/ IdsOf(RC.pre_drinks, RC.drink) # {}) =>
        ~RC.ok /\ panicked = "Overwrote something!"

\* an identity equal to a registered one, but not identical to it, is
\* inserted under a fresh id
C5_Witness ==
    /\ RegCalled
    /\ RC.op = "insert"
    /\ RC.id \notin DOMAIN RC.pre_drinks
    /\ \E i \in DOMAIN RC.pre_drinks :
           Drink_eq(RC.pre_drinks[i], RC.drink) /\ RC.pre_drinks[i] # RC.drink
    /\ ~RC.ok

\* C6: a rejected insert leaves both maps as they were before the call.
C6_RejectedInsertAtomic ==
    (RegCalled /\ RC.op = "insert" /\ ~RC.ok) =>
        drinks = RC.pre_drinks /\ lookup = RC.pre_lookup

\* C7: find returns the id under which an equal identity was inserted, also
\* after later inserts, and None for an identity equal to no registered one.
C7_FindReturnsInsertedId ==
    (RegCalled /\ RC.op = "find") =>
        /\ \A i \in IdsOf(drinks, RC.drink) : RC.found = Some(i)
        /\ IdsOf(drinks, RC.drink) = {} => RC.found = None

\* 5.004 % is found under the id given to 5.001 %, after a later insert
C7_Witness ==
    /\ RegCalled
    /\ RC.op = "find"
    /\ IsSome(RC.found)
    /\ drinks[Unwrap(RC.found)] # RC.drink
    /\ Cardinality(DOMAIN drinks) >= 2

\* find of an identity that was never inserted
C7_WitnessNone ==
    RegCalled /\ RC.op = "find" /\ RC.found = None /\ Cardinality(DOMAIN drinks) >= 2

\* the registered key e and the identity looked up differ at most in the
\* magnitudes of their ABV ranges
SameButAbvValues(e, drink) ==
    /\ e.key.name = drink.name
    /\ e.key.multiplier = drink.multiplier
    /\ IsSome(e.key.abv) /\ IsSome(drink.abv)
    /\ Unwrap(e.key.abv).approximate_min = Unwrap(drink.abv).approximate_min
    /\ Unwrap(e.key.abv).approximate_max = Unwrap(drink.abv).approximate_max
\* magnitudes in thousandths that are less than a hundredth apart
BelowHundredth(x, y) == (x - y) \in -9..9
\* magnitudes in thousandths with the same digits down to the hundredths
SameHundredths(x, y) == x \div 10 = y \div 10

LineRead == run.pc # "idle" /\ run.last # <<>>
LastLine == run.last[1]
LastParsed == LineParsedOf[LastLine.line]

\* the quantity field holds no number
QuantityFails(p) == IsSome(p.entry) /\ ~p.quantity.ok
\* the line has an ABV field and no ABV comes out of it
AbvFails(p) ==
    IsSome(p.entry) /\ IsSome(Unwrap(p.entry).abv) /\ p.drink.ok /\ IsNone(p.drink.val.abv)
\* the line has a volume field and no volume comes out of it
VolumeFails(p) == IsSome(p.entry) /\ IsSome(Unwrap(p.entry).volume) /\ IsNone(p.volume)
\* the line is not tokenized, or one of the three fields does not parse
ParseFails(p) == IsNone(p.entry) \/ QuantityFails(p) \/ AbvFails(p) \/ VolumeFails(p)

\* C8: a line that fails tokenization, or whose quantity, ABV or volume
\* field fails to parse, is reported and skipped, and the run is not
\* aborted: it goes on with the next line.
C8_ParseFailureSkipsLine ==
    (LineRead /\ ParseFails(LastParsed)) =>
        (panicked = "" /\ LastLine.outcome = "skipped")

(***************************************************************************)
(* Properties of the functions without state (checked under SpecFunctions *)
(* and SpecQuantity)                                                       *)
(***************************************************************************)
FnCalled(op) == fn_call # <<>> /\ fn_call[1].op = op
FC == fn_call[1]

\* both ABV ranges are absent, or both are there with the same flags and the
\* same digits down to the hundredths
AbvAgree(x, y) ==
    \/ IsNone(x) /\ IsNone(y)
    \/ /\ IsSome(x) /\ IsSome(y)
       /\ SameHundredths(Unwrap(x).min, Unwrap(y).min)
       /\ SameHundredths(Unwrap(x).max, Unwrap(y).max)
       /\ Unwrap(x).approximate_min = Unwrap(y).approximate_min
       /\ Unwrap(x).approximate_max = Unwrap(y).approximate_max

\* C14: two identities are equal exactly when their names are identical,
\* their ABV ranges are both absent or equal down to the hundredths, and
\* their multipliers agree in their first two decimals; the equality is
\* reflexive, symmetric and transitive.
C14_DrinkEqualityIsEquivalence ==
    FnCalled("eq") =>
        /\ FC.ab <=> (/\ FC.a.name = FC.b.name
                      /\ AbvAgree(FC.a.abv, FC.b.abv)
                      /\ SameHundredths(FC.a.multiplier, FC.b.multiplier))
        /\ FC.aa
        /\ FC.ab <=> FC.ba
        /\ (FC.ab /\ FC.bc) => FC.ac

\* 5.001 % equals 5.004 %, and 5.004 % does not equal 5.010 %
C14_Witness ==
    /\ FnCalled("eq")
    /\ FC.a.abv = Some(ExactAbv(5001)) /\ FC.b.abv = Some(ExactAbv(5004))
    /\ FC.c.abv = Some(ExactAbv(5010))
    /\ FC.ab /\ ~FC.bc /\ ~FC.ac

\* C15: the multiplier of an identity built from a line is 2.0 exactly when
\* the name of the drink contains "double" and 1.0 otherwise, and the server
\* derives the same multiplier for the same name.
C15_MultiplierFromDouble ==
    FnCalled("multiplier") =>
        /\ FC.drink.ok
        /\ FC.drink.val.multiplier =
               IF contains(FC.drink.val.name, S_double) THEN 2000 ELSE 1000
        /\ FC.drink.val.multiplier = FC.api

\* "Double IPA": the identity "double ipa" with multiplier 1.0, and 2.0 on
\* the server
C15_Disagree ==
    /\ FnCalled("multiplier")
    /\ FC.name = S_Double_IPA
    /\ FC.drink.val.name = S_double_ipa
    /\ FC.drink.val.multiplier = 1000
    /\ FC.api = 2000

\* C16: on a field of one or two numbers, each with or without "~", the two
\* separated by a hyphen with or without blanks around it: min is the first
\* number and approximate exactly when it carries the "~"; max is the second
\* number with its own flag; with a single number max is min, flag included.
C16_QuantityOfWellFormedField ==
    FnCalled("quantity") =>
        \A q \in QuantityInputs :
            FC.field = Some(q.text) =>
                /\ FC.result.ok
                /\ FC.result.val = [min |-> q.min, max |-> q.max,
                                    approximate_min |-> q.approximate_min,
                                    approximate_max |-> q.approximate_max]

\* "1.5 - ~66.666": an exact minimum and an approximate maximum
C16_Witness ==
    /\ FnCalled("quantity")
    /\ FC.field = Some(<<"1", ".", "5", " ", "-", " ", S_tilde, "6", "6", ".", "6", "6", "6">>)
    /\ FC.result.ok
    /\ FC.result.val = [min |-> 1500, max |-> 66666,
                        approximate_min |-> FALSE, approximate_max |-> TRUE]

\* "~2": one number, both bounds approximate
C16_WitnessSingle ==
    /\ FnCalled("quantity")
    /\ FC.field = Some(<<S_tilde, "2">>)
    /\ FC.result.ok
    /\ FC.result.val = [min |-> 2000, max |-> 2000,
                        approximate_min |-> TRUE, approximate_max |-> TRUE]

\* C17: a missing quantity field, and a field that is not a well-formed
\* quantity, end in a hard error; no range is returned for them.
C17_MalformedQuantityIsError ==
    (/\ FnCalled("quantity")
     /\ \/ IsNone(FC.field)
        \/ Unwrap(FC.field) \in MalformedQuantities) =>
        ~FC.result.ok

\* "2 beer" is read as the quantity 2
C17_Coerced ==
    /\ FnCalled("quantity")
    /\ FC.field = Some(<<"2", " ">> \o S_beer)
    /\ FC.result.ok
    /\ FC.result.val.min = 2000

\* the fields the parser does reject: the missing one and those without a digit
C17_Rejected ==
    /\ FnCalled("quantity")
    /\ FC.field = Some(<<"a", " ", "f", "e", "w">>)
    /\ ~FC.result.ok

\* the text the rule of C18 gives for a range
C18Text(q) ==
    IF q.min = q.max /\ q.approximate_min = q.approximate_max
    THEN MarkOf(q.approximate_min) \o format_2(q.min)
    ELSE MarkOf(q.approximate_min) \o format_2(q.min)
             \o <<"-">> \o MarkOf(q.approximate_max) \o format_2(q.max)

\* C18: print writes the values with two decimals, one number (with "~" if
\* approximate) when min is max and the flags are equal, else "min-max" with
\* a "~" for each approximate side; the printed text parses, and printing
\* what was parsed gives the same text again.
C18_PrintRoundTrip ==
    FnCalled("print") =>
        /\ FC.text = C18Text(FC.range)
        /\ FC.parsed.ok
        /\ FC.again = FC.text

\* the rendering rule alone, which the code follows
C18_PrintRule == FnCalled("print") => FC.text = C18Text(FC.range)

\* 1-2 is printed as "1.00-2.00" and comes back as the same text
C18_RoundTripKept ==
    /\ FnCalled("print")
    /\ FC.range = [min |-> 1000, max |-> 2000,
                   approximate_min |-> FALSE, approximate_max |-> FALSE]
    /\ FC.text = <<"1", ".", "0", "0", "-", "2", ".", "0", "0">>
    /\ FC.again = FC.text

\* 1.001-1.004 is printed as "1.00-1.00", which comes back as "1.00"
C18_RoundTripLost ==
    /\ FnCalled("print")
    /\ FC.range = [min |-> 1001, max |-> 1004,
                   approximate_min |-> FALSE, approximate_max |-> FALSE]
    /\ FC.text = <<"1", ".", "0", "0", "-", "1", ".", "0", "0">>
    /\ FC.again = <<"1", ".", "0", "0">>

C19_WitnessAbsent == FnCalled("abv") /\ IsNone(FC.field) /\ FC.result = Ok(None)

\* C20: on a field of one or two numbers that ends in "%", each number with
\* or without "~" and with or without a "%" of its own, the two separated by
\* a hyphen with or without blanks: min is the first number, max the second
\* (or min when there is one), each bound approximate exactly when its
\* number carries the "~".
C20_AbvOfWellFormedField ==
    FnCalled("abv") =>
        \A a \in AbvInputs :
            FC.field = Some(a.text) =>
                FC.result = Ok(Some([min |-> a.min, max |-> a.max,
                                     approximate_min |-> a.approximate_min,
                                     approximate_max |-> a.approximate_max]))

\* "~1% - 2%": each number with its own "%", blanks around the hyphen
C20_Witness ==
    /\ FnCalled("abv")
    /\ FC.field = Some(<<S_tilde, "1", "%", " ", "-", " ", "2", "%">>)
    /\ FC.result = Ok(Some([min |-> 1000, max |-> 2000,
                            approximate_min |-> TRUE, approximate_max |-> FALSE]))

(***************************************************************************)
(* Claims about the volume parser and the conversion to millilitres,       *)
(* under SpecVolume.                                                       *)
(***************************************************************************)
VolumeCalled == FnCalled("volume")

UnknownUnitRead == VolumeCalled /\ \E v \in UnknownUnitInputs : FC.field = Some(v.text)

\* C21: a number followed by a token that names no unit is an error of its
\* own and is never turned into "no volume".
C21_UnknownUnitIsError == UnknownUnitRead => FC.result # None

\* the volume a well-formed field means
VolumeExpected(v) ==
    Some([value |-> Volume_new(v.unit, v.value), approximate |-> v.approx,
          original_unit |-> Some(v.unit)])

\* C22: a "~"-optional decimal number followed by oz, fl oz, ml, cl or l in
\* any letter case gives the amount, the approximate flag and the unit fluid
\* ounce, fluid ounce, millilitre, centilitre or litre.
C22_UnitTokensAccepted ==
    \A v \in VolumeInputs :
        (VolumeCalled /\ FC.field = Some(v.text)) => FC.result = VolumeExpected(v)

\* the part of C22 that is about the tokens oz, ml and cl
C22_TwoLetterUnits ==
    \A v \in VolumeInputs :
        (VolumeCalled /\ FC.field = Some(v.text) /\ to_lowercase(v.token) \in {S_oz, S_ml, S_cl})
            => FC.result = VolumeExpected(v)

ToMlCalled == FnCalled("to_ml")

\* the amounts of the model in fluid ounces and what 29.57353 times each is
FlOzInMl == (12000 :> 354882) @@ (500000 :> 14786765) @@ (1500 :> 44360) @@ (64000 :> 1892705)

\* x times 29.5735, for x in thousandths
TimesFlOzRounded(x) == x * 29 + ((x \div 100) * 5735 + ((x % 100) * 5735) \div 100) \div 100

ToMlKeepsRest ==
    /\ FC.result.unit = "mL"
    /\ FC.result.amount.is_approximate = FC.self.amount.is_approximate
    /\ FC.after = FC.self
    /\ (FC.self.unit = "mL" => FC.result = FC.self)
    /\ FC.again = FC.result

ToMlOtherUnits ==
    /\ (FC.self.unit = "cL" => FC.result.amount.num = FC.self.amount.num * 10)
    /\ (FC.self.unit = "L" => FC.result.amount.num = FC.self.amount.num * 1000)
    /\ (FC.self.unit = "mL" => FC.result.amount.num = FC.self.amount.num)

BoundsCalled == FnCalled("bounds")

AggregateCalled == FnCalled("aggregate")

\* magnitude times 0.9 and times 1.1 when the value is approximate, the
\* magnitude when it is not
LowerBound(a) == IF a.is_approximate THEN (a.num * 9) \div 10 ELSE a.num

UpperBound(a) == IF a.is_approximate THEN (a.num * 11) \div 10 ELSE a.num

\* C24: the lower bound of an approximate value is magnitude x 0.9 and its
\* upper bound magnitude x 1.1; both bounds of an exact value are the
\* magnitude; for a magnitude that is not negative, lower bound <= magnitude
\* <= upper bound.
C24_ApproxBounds ==
    BoundsCalled =>
        /\ FC.min = LowerBound(FC.self)
        /\ FC.max = UpperBound(FC.self)
        /\ (~FC.self.is_approximate => FC.min = FC.self.num /\ FC.max = FC.self.num)
        /\ (FC.self.num >= 0 => FC.min <= FC.self.num /\ FC.self.num <= FC.max)

C24_Witness ==
    /\ BoundsCalled
    /\ FC.self = [num |-> 1500, is_approximate |-> TRUE]
    /\ FC.min = 1350
    /\ FC.max = 1650

AbvUnknown == IsNone(FC.self.min_abv) /\ IsNone(FC.self.max_abv)

AbvKnown == IsSome(FC.self.min_abv) /\ IsSome(FC.self.max_abv)

VolumeKnown == IsSome(FC.self.volume) /\ IsSome(FC.self.volume_ml)

Agg == FC.result.val

\* volume x quantity bound x multiplier, in the unit of the volume
ScaledBy(volume, amount, bound, multiplier) ==
    Some([amount |-> [num |-> F32Mul(F32Mul(amount, bound), multiplier),
                      is_approximate |-> volume.amount.is_approximate],
          unit |-> volume.unit])

FallbackVolumes ==
    IF IsNone(FC.self.volume) THEN Agg.min_volume = None /\ Agg.max_volume = None
    ELSE /\ Agg.min_volume = ScaledBy(Unwrap(FC.self.volume), Unwrap(FC.self.volume).amount.num,
                                      LowerBound(FC.self.min_quantity), FC.self.multiplier)
         /\ Agg.max_volume = ScaledBy(Unwrap(FC.self.volume), Unwrap(FC.self.volume).amount.num,
                                      UpperBound(FC.self.max_quantity), FC.self.multiplier)

\* C25: without an ABV or without a volume, min_drinks is the lower bound of
\* the min quantity x multiplier and max_drinks the upper bound of the max
\* quantity x multiplier; a volume that is present is still reported, scaled
\* by the quantity bound and the multiplier.
C25_FallbackAggregate ==
    (AggregateCalled /\ (AbvUnknown \/ IsNone(FC.self.volume))) =>
        /\ FC.result.ok
        /\ Agg.min_drinks = F32Mul(LowerBound(FC.self.min_quantity), FC.self.multiplier)
        /\ Agg.max_drinks = F32Mul(UpperBound(FC.self.max_quantity), FC.self.multiplier)
        /\ FallbackVolumes

\* the exact quantity 1-2 with multiplier 1.0 and neither ABV nor volume
\* gives 1.0 and 2.0
C25_Witness ==
    /\ AggregateCalled
    /\ AbvUnknown
    /\ IsNone(FC.self.volume)
    /\ FC.self.multiplier = 1000
    /\ FC.self.min_quantity = [num |-> 1000, is_approximate |-> FALSE]
    /\ FC.self.max_quantity = [num |-> 2000, is_approximate |-> FALSE]
    /\ FC.result.ok
    /\ Agg.min_drinks = 1000
    /\ Agg.max_drinks = 2000

\* a volume without an ABV: 500 ml, about 2 to about 3 of a double
C25_WitnessVolume ==
    /\ AggregateCalled
    /\ AbvUnknown
    /\ FC.self.multiplier = 2000
    /\ FC.self.min_quantity = [num |-> 2000, is_approximate |-> TRUE]
    /\ IsSome(FC.self.volume)
    /\ Unwrap(FC.self.volume).amount.num = 500000
    /\ Agg.min_drinks = 3600
    /\ Unwrap(Agg.min_volume).amount.num = 1800000

\* bound of the quantity x (bound of the ABV / 100) x bound of the
\* millilitres / 18
StandardDrinks(quantity, abv, ml) ==
    (((((quantity * (abv \div 100)) \div 1000) * ml) \div 1000) * 1000) \div 18000

OrderedInputs ==
    /\ 0 <= FC.self.min_quantity.num
    /\ FC.self.min_quantity.num <= FC.self.max_quantity.num
    /\ 0 <= Unwrap(FC.self.min_abv).num
    /\ Unwrap(FC.self.min_abv).num <= Unwrap(FC.self.max_abv).num
    /\ 0 <= Unwrap(FC.self.volume_ml).amount.num

\* C26: with an ABV and a volume, min_drinks is the lower bound of the min
\* quantity x (lower bound of the min ABV / 100) x lower bound of the
\* millilitre volume / 18, max_drinks the same of the upper bounds, and
\* min_drinks <= max_drinks when the inputs are not negative and min <= max.
C26_FullAggregate ==
    (AggregateCalled /\ AbvKnown /\ VolumeKnown) =>
        /\ FC.result.ok
        /\ Agg.min_drinks = StandardDrinks(LowerBound(FC.self.min_quantity),
                                           LowerBound(Unwrap(FC.self.min_abv)),
                                           LowerBound(Unwrap(FC.self.volume_ml).amount))
        /\ Agg.max_drinks = StandardDrinks(UpperBound(FC.self.max_quantity),
                                           UpperBound(Unwrap(FC.self.max_abv)),
                                           UpperBound(Unwrap(FC.self.volume_ml).amount))
        /\ (OrderedInputs => Agg.min_drinks <= Agg.max_drinks)

\* the exact quantity 2 of 5% in 12 fl oz is about 1.97 drinks, min and max
C26_Witness ==
    /\ AggregateCalled
    /\ FC.self.min_quantity = [num |-> 2000, is_approximate |-> FALSE]
    /\ FC.self.max_quantity = [num |-> 2000, is_approximate |-> FALSE]
    /\ FC.self.min_abv = Some([num |-> 5000, is_approximate |-> FALSE])
    /\ FC.self.max_abv = Some([num |-> 5000, is_approximate |-> FALSE])
    /\ FC.self.volume = Some([amount |-> [num |-> 12000, is_approximate |-> FALSE], unit |-> "FlOz"])
    /\ FC.result.ok
    /\ Agg.min_drinks = 1971
    /\ Agg.max_drinks = 1971

\* approximate bounds on every side: min_drinks is below max_drinks
C26_WitnessApprox ==
    /\ AggregateCalled
    /\ AbvKnown
    /\ VolumeKnown
    /\ OrderedInputs
    /\ FC.self.min_quantity.is_approximate
    /\ Unwrap(FC.self.min_abv).is_approximate
    /\ Unwrap(FC.self.volume_ml).amount.is_approximate
    /\ Agg.min_drinks < Agg.max_drinks

(***************************************************************************)
(* The year of a resolved date, under SpecDate.                            *)
(***************************************************************************)
\* the day token of the last call names the day of the previous date or a
\* later day of the year
DCNotBefore ==
    \/ DCDayMonth.month > DC.previous.date.month
    \/ /\ DCDayMonth.month = DC.previous.date.month
       /\ DCDayMonth.day >= DC.previous.date.day

\* C27: a day token that names the day of the previous date or a later day
\* of its year ("1 jan" against a previous 1 January too) resolves in the
\* year of the previous date; the year is advanced only for a token that
\* would otherwise lie before the previous date.
C27_YearKeptUnlessBackward ==
    (DCHasDayMonth /\ DC.result.ok /\ DCNotBefore) =>
        DC.result.val.date.year = DC.previous.date.year

\* the same token on consecutive lines: "1 jan" read when the previous date
\* is a 1 January already
C27_RepeatedNewYear ==
    /\ DCHasDayMonth
    /\ DC.result.ok
    /\ DCDayMonth = [month |-> 1, day |-> 1]
    /\ DC.previous.date.month = 1
    /\ DC.previous.date.day = 1
    /\ DC.result.val.date.year = DC.previous.date.year + 1

(***************************************************************************)
(* The drinks of an import run, under Spec.                                *)
(***************************************************************************)
LastStored == LineRead /\ LastLine.outcome = "stored"

LastEntryRow == run.db_entries[Len(run.db_entries)]

\* every created row is registered under its id, no identity was created
\* twice, and the line stored last is recorded under the id of its identity
DrinksCreatedOnce ==
    /\ panicked # "Overwrote something!"
    /\ DOMAIN drinks = 1..Len(run.db_drinks)
    /\ \A i \in 1..Len(run.db_drinks) :
           run.db_drinks[i].id = i /\ run.db_drinks[i].name = drinks[i].name
    /\ \A i, j \in DOMAIN drinks : Drink_eq(drinks[i], drinks[j]) => i = j
    /\ \A k \in 1..Len(run.db_entries) : run.db_entries[k].drink_id \in DOMAIN drinks
    /\ LastStored => Drink_eq(drinks[LastEntryRow.drink_id], LastParsed.drink.val)

\* an id keeps its identity for the rest of the run
IdsKept == \A i \in DOMAIN drinks : i \in DOMAIN drinks' /\ drinks'[i] = drinks[i]

\* C28: in an import run a drink is created once for each distinct identity,
\* at its first line; every later line with an equal identity is stored
\* under the id given then; with serial ids from the database
\* DrinkSet::insert never fails.
C28_OneDrinkPerIdentity == []DrinksCreatedOnce /\ [][IdsKept]_vars

\* a second line whose identity is equal, not identical, to that of the
\* first (IPA 5.004% after ipa 5%): one drink, two entries under its id
C28_Witness ==
    /\ LastStored
    /\ Len(run.db_drinks) = 1
    /\ Len(run.db_entries) = 2
    /\ LastParsed.drink.val # drinks[1]
    /\ run.db_entries[1].drink_id = 1
    /\ run.db_entries[2].drink_id = 1

\* two identities, the second line repeated: two drinks, three entries
C28_WitnessTwoDrinks ==
    /\ LastStored
    /\ Len(run.db_drinks) = 2
    /\ Len(run.db_entries) = 3
    /\ run.db_entries[2].drink_id = 2
    /\ run.db_entries[3].drink_id = 2

\* C29: the drink row that is stored for a new identity carries the
\* multiplier of the identity, 2.0 for a double and 1.0 otherwise.
C29_StoredMultiplier ==
    panicked = "" =>
        \A i \in 1..Len(run.db_drinks) :
            i \in DOMAIN drinks => run.db_drinks[i].multiplier = drinks[i].multiplier

\* the part of C29 that is about drinks that are not a double
C29_PlainMultiplier ==
    panicked = "" =>
        \A i \in 1..Len(run.db_drinks) :
            (i \in DOMAIN drinks /\ drinks[i].multiplier = 1000)
                => run.db_drinks[i].multiplier = 1000

(***************************************************************************)
(* The drink table of the server, under SpecServer.                        *)
(***************************************************************************)
DrinkRows == run.drink

SameDrinkKey(a, b) ==
    /\ to_lowercase(a.name) = to_lowercase(b.name)
    /\ a.min_abv = b.min_abv
    /\ a.max_abv = b.max_abv

\* C30: no two rows of the drink table have the same lower-cased name and the
\* same min and max ABV, however the lookups and creates of concurrent
\* requests interleave.
C30_NoDuplicateDrinkRows ==
    \A i, j \in 1..Len(DrinkRows) : SameDrinkKey(DrinkRows[i], DrinkRows[j]) => i = j

\* two requests for "ipa" at 5% that were in flight together: each lookup
\* ran before the other request's create, and each created a row
C30_RaceDuplicate ==
    /\ Len(DrinkRows) = 2
    /\ SameDrinkKey(DrinkRows[1], DrinkRows[2])
    /\ IsSome(DrinkRows[1].min_abv)
    /\ run.req[1].drink_id # run.req[2].drink_id
    /\ run.req[1].drink_id # 0
    /\ run.req[2].drink_id # 0
    /\ run.accepted = 2

\* one request after the other, for a drink without an ABV: the lookup of
\* the second compares with NULL, finds nothing and a second row is created
C30_SequentialDuplicate ==
    /\ Len(DrinkRows) = 2
    /\ SameDrinkKey(DrinkRows[1], DrinkRows[2])
    /\ IsNone(DrinkRows[1].min_abv)
    /\ run.req[2].pc = "idle"
    /\ run.accepted = 2

\* requests for drinks with an ABV that never overlap leave no duplicate
C30_WitnessFound ==
    /\ Len(DrinkRows) = 1
    /\ Len(run.entry) = 2
    /\ run.entry[1].drink_id = 1
    /\ run.entry[2].drink_id = 1

====
